---- MODULE Spec2Model ----
(***************************************************************************)
(* DataLeakBot: the leak-monitoring pipeline.                              *)
(*   bot/services/leak_checker.py      check_email and its two sources     *)
(*   bot/services/monitoring_service.py the leak and dark-web cycles        *)
(*   database/crud.py                  MonitorCRUD, NotificationCRUD       *)
(*   bot/handlers/monitoring.py        add / remove / check-now handlers   *)
(***************************************************************************)
EXTENDS Integers, Sequences, FiniteSets, TLC

\* ------------------------------------------------------------------ bounds
MaxTime == 1        \* the clock runs 0..MaxTime
MaxRows == 2        \* rows of monitored_emails
MaxEvents == 4      \* user requests, upstream changes and clock ticks
MaxCycles == 2      \* leak cycles started
\* the same, where the dark-web cycle runs beside the leak cycle
MaxEventsAll == 3
MaxCyclesAll == 2
MaxDarkCycles == 1  \* dark-web cycles started

\* --------------------------------------------------------------- constants
NoTime == -1                 \* NULL in a DateTime column
SubscriptionTicks == 1       \* 30 days * months, in clock ticks
TicksPerDay == 1             \* strftime("%Y-%m-%d") granularity
NoError == "None"            \* LeakCheckResult.error is None

Users == {1, 2}

\* the paid plans a payment activates
PaidTypes == {"premium"}

\* an address is local@domain; the domain is its sequence of labels
Emails ==
  { [local |-> "u", domain |-> <<"mail", "ru">>],
    [local |-> "v", domain |-> <<"x", "io">>] }

\* ------------------------------------------------- leak_checker.py (pure)
KNOWN_RUSSIAN_BREACHES ==
  << [domain |-> <<"mail", "ru">>, name |-> "MailRu2014", pwn_count |-> 4660000,
      data_classes |-> {"Email addresses", "Passwords"}, severity |-> "high"],
     [domain |-> <<"yandex", "ru">>, name |-> "Yandex2014", pwn_count |-> 1260000,
      data_classes |-> {"Email addresses", "Passwords"}, severity |-> "high"],
     [domain |-> <<"vk", "com">>, name |-> "VK2012", pwn_count |-> 93388000,
      data_classes |-> {"Email addresses", "Passwords", "Phone numbers", "Names"},
      severity |-> "critical"],
     [domain |-> <<"rambler", "ru">>, name |-> "Rambler2012", pwn_count |-> 91000000,
      data_classes |-> {"Email addresses", "Passwords"}, severity |-> "high"],
     [domain |-> <<"cdek", "ru">>, name |-> "CDEK2022", pwn_count |-> 19000000,
      data_classes |-> {"Email addresses", "Phone numbers", "Names",
                        "Physical addresses"},
      severity |-> "critical"],
     [domain |-> <<"delivery-club", "ru">>, name |-> "DeliveryClub2022",
      pwn_count |-> 21000000,
      data_classes |-> {"Email addresses", "Phone numbers", "Names",
                        "Physical addresses", "Purchases"},
      severity |-> "critical"],
     [domain |-> <<"pikabu", "ru">>, name |-> "Pikabu2022", pwn_count |-> 7900000,
      data_classes |-> {"Email addresses", "Passwords", "Usernames"},
      severity |-> "high"],
     [domain |-> <<"geekbrains", "ru">>, name |-> "GeekBrains2022",
      pwn_count |-> 6000000,
      data_classes |-> {"Email addresses", "Phone numbers", "Names", "Passwords"},
      severity |-> "high"] >>

\* BreachInfo, the fields the pipeline reads
BreachInfo(n, c, dc, s) ==
  [name |-> n, pwn_count |-> c, data_classes |-> dc, severity |-> s]

\* domain == breach_domain or domain.endswith("." + breach_domain)
DomainMatches(domain, breach_domain) ==
  \/ domain = breach_domain
  \/ /\ Len(domain) > Len(breach_domain)
     /\ SubSeq(domain, Len(domain) - Len(breach_domain) + 1, Len(domain))
          = breach_domain

RECURSIVE MatchCatalog(_, _)
MatchCatalog(domain, i) ==
  IF i > Len(KNOWN_RUSSIAN_BREACHES) THEN << >>
  ELSE LET k == KNOWN_RUSSIAN_BREACHES[i]
           rest == MatchCatalog(domain, i + 1)
       IN  IF DomainMatches(domain, k.domain)
           THEN <<BreachInfo(k.name, k.pwn_count, k.data_classes, k.severity)>>
                  \o rest
           ELSE rest

\* the catalog matches of each domain of the model, computed once
Domains == { e.domain : e \in Emails }
CatalogMatches == [d \in Domains |-> MatchCatalog(d, 1)]

\* _check_local_breaches: the "possible" matches are built and dropped
CheckLocalBreaches(email) == CatalogMatches[email.domain]

CriticalData ==
  {"Credit cards", "Bank account numbers", "Passport numbers",
   "Government issued IDs", "Social security numbers"}

HighData == {"Passwords", "Auth tokens", "Security questions and answers"}

\* the thresholds taken inclusively: ">=" for ">"
CalculateSeverityInclusive(breach_data) ==
  LET has_critical == breach_data.DataClasses \cap CriticalData # {}
      has_high == breach_data.DataClasses \cap HighData # {}
  IN  IF has_critical THEN "critical"
      ELSE IF has_high /\ breach_data.PwnCount >= 1000000 THEN "critical"
      ELSE IF has_high THEN "high"
      ELSE IF breach_data.PwnCount >= 10000000 THEN "high"
      ELSE IF breach_data.PwnCount >= 100000 THEN "medium"
      ELSE "low"

\* LeakCheckerService._calculate_severity
CalculateSeverity(breach_data) ==
  LET has_critical == breach_data.DataClasses \cap CriticalData # {}
      has_high == breach_data.DataClasses \cap HighData # {}
  IN  IF has_critical THEN "critical"
      ELSE IF has_high /\ breach_data.PwnCount > 1000000 THEN "critical"
      ELSE IF has_high THEN "high"
      ELSE IF breach_data.PwnCount > 10000000 THEN "high"
      ELSE IF breach_data.PwnCount > 100000 THEN "medium"
      ELSE "low"

\* what the breach index may hold for one account
Adobe ==
  [Name |-> "Adobe", PwnCount |-> 152445165,
   DataClasses |-> {"Email addresses", "Password hints", "Passwords", "Usernames"}]

Gravatar ==
  [Name |-> "Gravatar", PwnCount |-> 113990759,
   DataClasses |-> {"Email addresses", "Names", "Usernames"}]

\* the index's answer for an account, by the number of breaches it lists
HibpData(n) == IF n = 0 THEN << >> ELSE IF n = 1 THEN <<Adobe>>
               ELSE <<Gravatar, Adobe>>

MaxListed == 1      \* the index lists 0..MaxListed breaches for an account
HibpAnswers == 0..MaxListed

\* how one request to the index ends
HibpOutcomes == {"ok", "401", "429", "500", "client_error", "timeout"}

\* the index answers 404 for an account it does not know
HttpStatus(outcome, data) ==
  IF outcome = "ok" THEN (IF data = << >> THEN "404" ELSE "200") ELSE outcome

RECURSIVE ParseBreaches(_, _)
ParseBreaches(data, i) ==
  IF i > Len(data) THEN << >>
  ELSE <<BreachInfo(data[i].Name, data[i].PwnCount, data[i].DataClasses,
                    CalculateSeverity(data[i]))>>
         \o ParseBreaches(data, i + 1)

\* _check_hibp: every failure is caught and left in .error; str(e) of a
\* timeout is the empty string
CheckHibp(outcome, data) ==
  LET status == HttpStatus(outcome, data)
      breaches == IF status = "200" THEN ParseBreaches(data, 1) ELSE << >>
      error == CASE status \in {"200", "404"} -> NoError
                 [] status = "401" -> "Invalid HIBP API key"
                 [] status = "429" -> "Rate limit exceeded"
                 [] status = "client_error" -> "Connection error"
                 [] status = "timeout" -> ""
                 [] OTHER -> "HIBP API error"
  IN  [breaches |-> breaches, error |-> error, total_breaches |-> Len(breaches)]

\* Python truth value of an optional string
Truthy(s) == s # NoError /\ s # ""

Names(breaches) == { breaches[i].name : i \in 1..Len(breaches) }

SeverityOrder(s) ==
  CASE s = "critical" -> 0 [] s = "high" -> 1 [] s = "medium" -> 2
    [] s = "low" -> 3 [] OTHER -> 2

\* the list left as merged, without the sort
Unsorted(breaches) == breaches

\* list.sort(key=...) is stable
RECURSIVE SelectRank(_, _, _)
SelectRank(breaches, rank, i) ==
  IF i > Len(breaches) THEN << >>
  ELSE (IF SeverityOrder(breaches[i].severity) = rank THEN <<breaches[i]>>
        ELSE << >>) \o SelectRank(breaches, rank, i + 1)

SortBySeverity(breaches) ==
  SelectRank(breaches, 0, 1) \o SelectRank(breaches, 1, 1)
    \o SelectRank(breaches, 2, 1) \o SelectRank(breaches, 3, 1)

\* every local match appended, whatever the names already present
AppendAll(breaches, names, i) == breaches

\* the local matches whose name is not among the names already present
RECURSIVE NotIn(_, _, _)
NotIn(breaches, names, i) ==
  IF i > Len(breaches) THEN << >>
  ELSE (IF breaches[i].name \notin names THEN <<breaches[i]>> ELSE << >>)
         \o NotIn(breaches, names, i + 1)

\* check_email(email) with the key configured or not, the outcome of the
\* breachedaccount request, the index's data and the paste count
CheckEmail(email, key, outcome, data, pastes_count) ==
  LET hibp_result == CheckHibp(outcome, data)
      remote == IF key /\ ~Truthy(hibp_result.error)
                THEN hibp_result.breaches ELSE << >>
      local_breaches == CheckLocalBreaches(email)
      merged == remote \o NotIn(local_breaches, Names(remote), 1)
  IN  [query |-> email, query_type |-> "email",
       total_breaches |-> Len(merged),
       breaches |-> SortBySeverity(merged),
       pastes |-> IF key THEN pastes_count ELSE 0,
       error |-> NoError]


\* further entries of the breach index: one that carries the name of a
\* catalog entry, and one of each remaining severity
MailRuListed ==
  [Name |-> "MailRu2014", PwnCount |-> 4660000,
   DataClasses |-> {"Email addresses"}]

Dropbox ==
  [Name |-> "Dropbox", PwnCount |-> 68648009,
   DataClasses |-> {"Email addresses", "Passwords"}]

Forum ==
  [Name |-> "Forum", PwnCount |-> 5000,
   DataClasses |-> {"Email addresses", "Usernames"}]

Listed == {Adobe, Gravatar, MailRuListed, Dropbox, Forum}

MaxData == 2        \* breaches in one answer of the index

\* the answers of the index: up to MaxData entries with different names
DataAnswers ==
  { d \in UNION { [1..n -> Listed] : n \in 0..MaxData } :
      \A a, b \in 1..Len(d) : a # b => d[a].Name # d[b].Name }

\* the answers of the index as the code accepts them: any JSON array of up
\* to MaxData entries, names repeated or not
RepeatingAnswers == UNION { [1..n -> Listed] : n \in 0..MaxData }

\* ------------------------------------------------------------------ state
VARIABLES
  now,                \* datetime.now(timezone.utc), in ticks
  api_key,            \* settings.hibp_api_key is set
  bot,                \* MonitoringService.bot is set
  hibp,               \* the breach index: account -> number of breaches listed
  users,              \* table users: id -> subscription columns
  rows,               \* table monitored_emails, row id = position
  notification_logs,  \* table notification_logs, in insertion order
  darkweb_alerts,     \* table darkweb_alerts, in insertion order
  fsm,                \* users whose FSM state is waiting_for_email
  leak,               \* the running run_monitoring_cycle, if any
  dark,               \* the running run_darkweb_cycle, if any
  chk,                \* the running monitor_check_now handler, if any
  delivered,          \* messages bot.send_message has delivered, in order
  runs,               \* what the previous and the current leak cycle observed
  budget              \* how often each bounded event may still happen

\* the state of the check handlers (handlers/check.py)
VARIABLES
  quota,              \* table users: id -> the columns can_check reads
  check_history,      \* table check_history, in insertion order
  fsm_check,          \* users whose FSM state is CheckStates.waiting_for_email
  fsm_data,           \* the FSM data of each user
  asks,               \* the running process_email_check handlers
  shown               \* the text each user was shown last

checkvars == <<quota, check_history, fsm_check, fsm_data, asks, shown>>

\* the calls in flight that the handlers of handlers/monitoring.py and the
\* leak cycle are followed through one await at a time
VARIABLES
  latest,             \* row id -> the latest check_email answer for the row
  adding              \* the add_email calls between their SELECT and their INSERT

racevars == <<latest, adding>>

\* handlers/password.py
VARIABLES
  fsm_password,       \* users in PasswordStates.waiting_for_password
  password_asks,      \* process_password_check handlers awaiting the range answer
  requests,           \* the requests sent to api.pwnedpasswords.com, with their passwords
  password_shown,     \* user -> the assessment last shown to them
  assessed            \* the last return of check_password, with its inputs

passwordvars == <<fsm_password, password_asks, requests, password_shown,
                  assessed>>

\* leak_checker.py, check_email on its own
VARIABLES
  agg                 \* the last return of check_email, with its inputs

aggvars == <<agg>>

\* what the actions of the monitoring pipeline leave alone
extravars == <<checkvars, racevars, passwordvars, aggvars>>

vars == <<now, api_key, bot, hibp, users, rows, notification_logs,
          darkweb_alerts, fsm, leak, dark, chk, delivered, runs, budget,
          extravars>>

\* is_subscription_active without the comparison with the current time
IsSubscriptionActiveNoExpiry(user, t) ==
  IF user.subscription_type = "free" THEN FALSE
  ELSE user.subscription_expires # NoTime

\* helpers.is_subscription_active
IsSubscriptionActive(user, t) ==
  IF user.subscription_type = "free" THEN FALSE
  ELSE IF user.subscription_expires = NoTime THEN FALSE
  ELSE user.subscription_expires > t

\* handlers/monitoring._get_monitor_limit
GetMonitorLimit(sub_type) ==
  CASE sub_type = "free" -> 0 [] sub_type = "premium" -> 5
    [] sub_type = "business" -> 50 [] OTHER -> 0

\* ------------------------------------------------------- database/crud.py
ActiveIds == { i \in 1..Len(rows) : rows[i].is_active }

\* MonitorCRUD.count_user_monitored
CountUserMonitored(user_id) ==
  Cardinality({ i \in ActiveIds : rows[i].user_id = user_id })

\* MonitorCRUD.get_user_monitored (ids; the handlers search it by id)
GetUserMonitored(user_id) == { i \in ActiveIds : rows[i].user_id = user_id }

\* the attributes of a row as a session loads them
Loaded(i) ==
  [id |-> i, user_id |-> rows[i].user_id, email |-> rows[i].email,
   last_breach_count |-> rows[i].last_breach_count]

\* get_all_active without its order_by: the rows come in the order of
\* their ids
GetAllActiveById ==
  LET n == Cardinality(ActiveIds)
  IN  { [k \in 1..n |-> Loaded(o[k])] :
          o \in { p \in [1..n -> ActiveIds] :
                    \A a, b \in 1..n : a < b => p[a] < p[b] } }

\* MonitorCRUD.get_all_active: ORDER BY last_checked ASC NULLS FIRST; rows
\* with equal last_checked come in any order
GetAllActive ==
  LET n == Cardinality(ActiveIds)
  IN  { [k \in 1..n |-> Loaded(o[k])] :
          o \in { p \in [1..n -> ActiveIds] :
                    /\ \A a, b \in 1..n : a # b => p[a] # p[b]
                    /\ \A a, b \in 1..n :
                         a < b => rows[p[a]].last_checked <= rows[p[b]].last_checked } }

\* update_check_result that records the time of the check and forgets the count
UpdateCheckResultKeepsCount(table, monitor_id, breach_count, t) ==
  IF monitor_id \in 1..Len(table)
  THEN [table EXCEPT ![monitor_id].last_checked = t]
  ELSE table

\* MonitorCRUD.update_check_result
UpdateCheckResult(table, monitor_id, breach_count, t) ==
  IF monitor_id \in 1..Len(table)
  THEN [table EXCEPT ![monitor_id].last_checked = t,
                     ![monitor_id].last_breach_count = breach_count]
  ELSE table

\* add_email that brings back a removed row of the same user and address
\* where the code inserts a new one
AddEmailReactivates(table, user_id, email) ==
  IF \E i \in 1..Len(table) :
       table[i].user_id = user_id /\ table[i].email = email
  THEN LET i == CHOOSE i \in 1..Len(table) :
                  table[i].user_id = user_id /\ table[i].email = email
       IN  [table EXCEPT ![i].is_active = TRUE]
  ELSE Append(table, [user_id |-> user_id, email |-> email, is_active |-> TRUE,
                      last_checked |-> NoTime, last_breach_count |-> 0])

\* MonitorCRUD.add_email: the new table, unchanged when the address is
\* already watched by this user
AddEmail(table, user_id, email) ==
  IF \E i \in 1..Len(table) :
       table[i].user_id = user_id /\ table[i].email = email /\ table[i].is_active
  THEN table
  ELSE Append(table, [user_id |-> user_id, email |-> email, is_active |-> TRUE,
                      last_checked |-> NoTime, last_breach_count |-> 0])

\* MonitorCRUD.remove_email
RemoveEmail(table, user_id, email_id) ==
  IF email_id \in 1..Len(table) /\ table[email_id].user_id = user_id
  THEN [table EXCEPT ![email_id].is_active = FALSE]
  ELSE table

\* was_sent with "> 1" for "> 0"
WasSentOffByOne(logs, user_id, notification_type, content_hash) ==
  Cardinality({ i \in 1..Len(logs) :
                  /\ logs[i].user_id = user_id
                  /\ logs[i].notification_type = notification_type
                  /\ logs[i].content_hash = content_hash }) > 1

\* was_sent without the condition on notification_type
WasSentAnyKind(logs, user_id, notification_type, content_hash) ==
  \E i \in 1..Len(logs) :
    /\ logs[i].user_id = user_id
    /\ logs[i].content_hash = content_hash

\* NotificationCRUD.was_sent
WasSent(logs, user_id, notification_type, content_hash) ==
  \E i \in 1..Len(logs) :
    /\ logs[i].user_id = user_id
    /\ logs[i].notification_type = notification_type
    /\ logs[i].content_hash = content_hash

\* NotificationCRUD.log_sent (sent_at is written and never read)
LogSent(logs, user_id, notification_type, content_hash) ==
  Append(logs, [user_id |-> user_id, notification_type |-> notification_type,
                content_hash |-> content_hash])

\* sha256 of f"{email}:{total_breaches}", taken as collision-free: the
\* digest is identified with the content it was computed from
BreachHash(email, total_breaches) == <<email, total_breaches>>

\* ------------------------------------------------------------------- init
NoCount == -1                \* no check_email result yet

\* the cycle's frame: position, the snapshot and the item being processed,
\* the item's result (new_count, its error field, and how the
\* breachedaccount request ended), and what the cycle has done so far
\* (the sends it attempted, the records it wrote, the items that raised)
Idle == [pc |-> "idle", monitored |-> << >>, i |-> 0,
         new_count |-> NoCount, error |-> NoError, remote |-> "none",
         attempts |-> << >>, logged |-> 0, raised |-> {}]
DarkIdle == [pc |-> "idle", monitored |-> << >>, i |-> 0]
ChkIdle == [pc |-> "idle", id |-> 0, email |-> << >>]
\* check_email has not returned
NoAggregate == [email |-> "none"]
\* no record of what a leak cycle observed
Disturbed == [prev |-> {}, prev_ok |-> FALSE, cur |-> {}, cur_ok |-> FALSE]

\* an empty FSM data dictionary
\* data.get("last_query") of a dictionary without the key
NoQuery == [local |-> "None", domain |-> << >>]
NoData == [last_query |-> NoQuery]
\* no text on the user's screen
Nothing == [text |-> "none", remote |-> "none"]

\* no assessment on the user's screen, none returned
NoAssessment == [text |-> "none"]

\* no check_email of the row has returned; failed: some remote request of
\* the row's checks has failed
NoAnswer == [count |-> NoCount, failed |-> FALSE]

\* the state after construction, but for MonitoringService.bot
Begin(allowance) ==
  /\ now = 0
  /\ api_key \in BOOLEAN
  /\ hibp \in [Emails -> HibpAnswers]
  /\ users = [u \in Users |-> [subscription_type |-> "free",
                               subscription_expires |-> NoTime]]
  /\ rows = << >>
  /\ notification_logs = << >>
  /\ darkweb_alerts = << >>
  /\ fsm = {}
  /\ leak = Idle
  /\ dark = DarkIdle
  /\ chk = ChkIdle
  /\ delivered = << >>
  /\ runs = Disturbed
  /\ budget = allowance
  /\ quota = [u \in Users |-> [checks_today |-> 0, last_check_date |-> NoTime,
                                total_checks |-> 0]]
  /\ check_history = << >>
  /\ fsm_check = {}
  /\ fsm_data = [u \in Users |-> NoData]
  /\ asks = << >>
  /\ shown = [u \in Users |-> Nothing]
  /\ latest = [id \in 1..MaxRows |-> NoAnswer]
  /\ adding = << >>
  /\ fsm_password = {}
  /\ password_asks = << >>
  /\ requests = {}
  /\ password_shown = [u \in Users |-> NoAssessment]
  /\ assessed = NoAssessment
  /\ agg = NoAggregate

\* setup_scheduler builds MonitoringService(bot=bot)
Start(allowance) ==
  /\ bot = TRUE
  /\ Begin(allowance)

\* the leak cycle and the users
Init == Start([events |-> MaxEvents, cycles |-> MaxCycles, dark_cycles |-> 0])

\* the leak cycle, the dark-web cycle and the users
InitAll == Start([events |-> MaxEventsAll, cycles |-> MaxCyclesAll,
                  dark_cycles |-> MaxDarkCycles])

Event == /\ budget.events > 0
         /\ budget' = [budget EXCEPT !.events = @ - 1]

\* ------------------------------------------------------------ environment
Tick ==
  /\ now < MaxTime
  /\ now' = now + 1
  /\ Event
  /\ UNCHANGED <<api_key, bot, hibp, users, rows, notification_logs,
                 darkweb_alerts, fsm, leak, dark, chk, delivered, runs>>
  /\ UNCHANGED extravars

UpstreamChange(e, a) ==
  /\ Event
  /\ hibp[e] # a
  /\ hibp' = [hibp EXCEPT ![e] = a]
  /\ runs' = Disturbed
  /\ UNCHANGED <<now, api_key, bot, users, rows, notification_logs,
                 darkweb_alerts, fsm, leak, dark, chk, delivered>>
  /\ UNCHANGED extravars

\* UserCRUD.activate_subscription (months = 1)
ActivateSubscription(u, sub_type) ==
  /\ Event
  /\ users' = [users EXCEPT ![u] =
                 [subscription_type |-> sub_type,
                  subscription_expires |-> now + SubscriptionTicks]]
  /\ runs' = Disturbed
  /\ UNCHANGED <<now, api_key, bot, hibp, rows, notification_logs,
                 darkweb_alerts, fsm, leak, dark, chk, delivered>>
  /\ UNCHANGED extravars

\* ----------------------------------------------- handlers/monitoring.py
MonitorAddStart(u) ==
  /\ IsSubscriptionActive(users[u], now)
  /\ CountUserMonitored(u) < GetMonitorLimit(users[u].subscription_type)
  /\ u \notin fsm
  /\ fsm' = fsm \cup {u}
  /\ UNCHANGED <<now, api_key, bot, hibp, users, rows, notification_logs,
                 darkweb_alerts, leak, dark, chk, delivered, runs, budget>>
  /\ UNCHANGED extravars

MonitorAddProcess(u, email) ==
  /\ u \in fsm
  /\ Event
  /\ Len(AddEmail(rows, u, email)) <= MaxRows
  /\ rows' = AddEmail(rows, u, email)
  /\ fsm' = fsm \ {u}
  /\ runs' = Disturbed
  /\ UNCHANGED <<now, api_key, bot, hibp, users, notification_logs,
                 darkweb_alerts, leak, dark, chk, delivered>>
  /\ UNCHANGED extravars

MonitorRemove(u, email_id) ==
  /\ Event
  /\ email_id \in 1..Len(rows)
  /\ rows[email_id].user_id = u
  /\ rows' = RemoveEmail(rows, u, email_id)
  /\ runs' = Disturbed
  /\ UNCHANGED <<now, api_key, bot, hibp, users, notification_logs,
                 darkweb_alerts, fsm, leak, dark, chk, delivered>>
  /\ UNCHANGED extravars

\* monitor_check_now up to its await of check_email
CheckNowBegin(u, email_id) ==
  /\ chk.pc = "idle"
  /\ Event
  /\ email_id \in GetUserMonitored(u)
  /\ chk' = [pc |-> "lookup", id |-> email_id, email |-> rows[email_id].email]
  /\ UNCHANGED <<now, api_key, bot, hibp, users, rows, notification_logs,
                 darkweb_alerts, fsm, leak, dark, delivered, runs>>
  /\ UNCHANGED extravars

\* monitor_check_now from the answer of check_email on
CheckNowDone(outcome, pastes_count) ==
  /\ chk.pc = "lookup"
  /\ LET result == CheckEmail(chk.email, api_key, outcome, HibpData(hibp[chk.email]),
                              pastes_count)
     IN  rows' = UpdateCheckResult(rows, chk.id, result.total_breaches, now)
  /\ chk' = ChkIdle
  /\ runs' = Disturbed
  /\ UNCHANGED <<now, api_key, bot, hibp, users, notification_logs,
                 darkweb_alerts, fsm, leak, dark, delivered, budget>>
  /\ UNCHANGED extravars


\* ------------------------------------- monitoring_service.py: leak cycle
\* run_monitoring_cycle up to the first await of check_email; at most one instance runs
\* (scheduler.py, max_instances=1)
\* _check_single up to its await of check_email, for item k of the
\* snapshot m: a lapsed owner ends the item at once, and the cycle sleeps.
\* The owner row always exists, no code deletes a user
BeginItem(m, k) ==
  IF k > Len(m) THEN Idle
  ELSE [leak EXCEPT !.monitored = m, !.i = k, !.new_count = NoCount,
                    !.error = NoError, !.remote = "none",
                    !.pc = IF IsSubscriptionActive(users[m[k].user_id], now)
                           THEN "lookup" ELSE "sleep"]

\* max_instances left uncapped: the job starts whether or not it is running
MayStartUncapped(frame) == TRUE

\* scheduler.py, max_instances=1: the job does not start while it is running
MayStart(frame) == frame.pc = "idle"

LeakStart ==
  /\ MayStart(leak)
  /\ budget.cycles > 0
  /\ budget' = [budget EXCEPT !.cycles = @ - 1]
  /\ \E m \in GetAllActive : leak' = BeginItem(m, 1)
  /\ runs' = [prev |-> runs.cur, prev_ok |-> runs.cur_ok,
              cur |-> {}, cur_ok |-> TRUE]
  /\ UNCHANGED <<now, api_key, bot, hibp, users, rows, notification_logs,
                 darkweb_alerts, fsm, dark, chk, delivered>>
  /\ UNCHANGED extravars

Entry == leak.monitored[leak.i]

\* how the breachedaccount request of check_email ended: not made without a
\* key, answered (200 or 404), or failed
RemoteEnded(key, outcome) ==
  IF ~key THEN "none" ELSE IF outcome = "ok" THEN "ok" ELSE "failed"

\* the comparison with ">=" for ">"
IsNewBreachOrEqual(new_count, old_count) == new_count >= old_count

\* "if new_count > old_count"
IsNewBreach(new_count, old_count) == new_count > old_count

\* _notify_new_breach up to bot.send_message: is a message to be sent
ShouldSend(logs, has_bot, user_id, content_hash) ==
  /\ ~WasSent(logs, user_id, "new_breach", content_hash)
  /\ has_bot

\* _check_single from the answer of check_email on, and _notify_new_breach
\* up to its await of bot.send_message
LeakLookupDone(outcome, pastes_count) ==
  /\ leak.pc = "lookup"
  /\ LET result == CheckEmail(Entry.email, api_key, outcome,
                              HibpData(hibp[Entry.email]),
                              pastes_count)
         old_count == Entry.last_breach_count
         new_count == result.total_breaches
         content_hash == BreachHash(Entry.email, result.total_breaches)
         seen == [leak EXCEPT !.new_count = new_count,
                              !.error = result.error,
                              !.remote = RemoteEnded(api_key, outcome)]
     IN  /\ rows' = UpdateCheckResult(rows, Entry.id, new_count, now)
         /\ runs' = IF runs.cur_ok
                    THEN [runs EXCEPT !.cur = @ \cup {<<Entry.id, new_count>>}]
                    ELSE runs
         /\ IF /\ IsNewBreach(new_count, old_count)
               /\ ShouldSend(notification_logs, bot, Entry.user_id, content_hash)
            THEN leak' = [seen EXCEPT !.pc = "send",
                                      !.attempts = Append(@, Entry.id)]
            ELSE leak' = [seen EXCEPT !.pc = "sleep"]
  /\ UNCHANGED <<now, api_key, bot, hibp, users, notification_logs,
                 darkweb_alerts, fsm, dark, chk, delivered, budget>>
  /\ UNCHANGED extravars

\* log_sent moved out of the try block: it runs whether the send raised or not
AfterSendAlways(logs, ok, user_id, content_hash) ==
  LogSent(logs, user_id, "new_breach", content_hash)

\* log_sent left out
AfterSendNoLog(logs, ok, user_id, content_hash) == logs

\* log_sent moved into the except branch: it runs only after a send that
\* raised
AfterSendLogsOnFailure(logs, ok, user_id, content_hash) ==
  IF ok THEN logs ELSE LogSent(logs, user_id, "new_breach", content_hash)

\* the try block around bot.send_message: log_sent runs only after a send
\* that did not raise
AfterSend(logs, ok, user_id, content_hash) ==
  IF ok THEN LogSent(logs, user_id, "new_breach", content_hash) ELSE logs

\* _notify_new_breach from the end of bot.send_message on
LeakSendDone(ok) ==
  /\ leak.pc = "send"
  /\ LET content_hash == BreachHash(Entry.email, leak.new_count)
     IN  /\ delivered' = IF ok
                         THEN Append(delivered, [user_id |-> Entry.user_id,
                                                 content_hash |-> content_hash])
                         ELSE delivered
         /\ notification_logs' =
              AfterSend(notification_logs, ok, Entry.user_id, content_hash)
  /\ leak' = [leak EXCEPT !.pc = "sleep",
                          !.logged = @ + Len(notification_logs')
                                       - Len(notification_logs)]
  /\ UNCHANGED <<now, api_key, bot, hibp, users, rows, darkweb_alerts, fsm,
                 dark, chk, runs, budget>>
  /\ UNCHANGED extravars

\* asyncio.sleep(2), then the next item or the end of the cycle
LeakSleepDone ==
  /\ leak.pc = "sleep"
  /\ leak' = BeginItem(leak.monitored, leak.i + 1)
  /\ UNCHANGED <<now, api_key, bot, hibp, users, rows, notification_logs,
                 darkweb_alerts, fsm, dark, chk, delivered, runs, budget>>
  /\ UNCHANGED extravars

\* ------------------------- monitoring_service.py: an item that raises
MaxEventsFaults == 3  \* user requests, upstream changes and clock ticks
MaxCyclesFaults == 1  \* leak cycles started

\* where an exception can leave _check_single: the owner lookup
\* (session.execute), update_check_result after the answer of check_email,
\* and was_sent in _notify_new_breach (bot.send_message and log_sent are
\* inside a try block of their own)
RaisePoints == {"owner", "persist", "notify"}

\* the exception is raised: the item ends where it stands
LeakRaised(at, outcome, pastes_count) ==
  /\ leak.pc \in (IF at = "owner" THEN {"lookup", "sleep"} ELSE {"lookup"})
  /\ leak.new_count = NoCount
  /\ LET result == CheckEmail(Entry.email, api_key, outcome,
                              HibpData(hibp[Entry.email]), pastes_count)
         new_count == result.total_breaches
         seen == IF at = "owner" THEN leak
                 ELSE [leak EXCEPT !.new_count = new_count,
                                   !.error = result.error,
                                   !.remote = RemoteEnded(api_key, outcome)]
     IN  /\ at = "notify" => IsNewBreach(new_count, Entry.last_breach_count)
         /\ rows' = IF at = "notify"
                    THEN UpdateCheckResult(rows, Entry.id, new_count, now)
                    ELSE rows
         /\ leak' = [seen EXCEPT !.pc = "raised", !.raised = @ \cup {leak.i}]
  /\ runs' = Disturbed
  /\ UNCHANGED <<now, api_key, bot, hibp, users, notification_logs,
                 darkweb_alerts, fsm, dark, chk, delivered, budget>>
  /\ UNCHANGED extravars

\* the loop's try block around the whole loop: an exception ends the cycle
AfterRaiseAborts(m, k) == Idle

\* the item that raised is taken up again
AfterRaiseRetries(m, k) == BeginItem(m, k)

\* "except Exception" inside the loop: the error is logged and the loop
\* goes on to the next item, asyncio.sleep(2) having been skipped
AfterRaise(m, k) == BeginItem(m, k + 1)

LeakRaisedNext ==
  /\ leak.pc = "raised"
  /\ leak' = AfterRaise(leak.monitored, leak.i)
  /\ UNCHANGED <<now, api_key, bot, hibp, users, rows, notification_logs,
                 darkweb_alerts, fsm, dark, chk, delivered, runs, budget>>
  /\ UNCHANGED extravars

\* ------------------- the checks and the adds, one await at a time
MaxEventsRace == 4  \* user requests, upstream changes and clock ticks
MaxCyclesRace == 1  \* leak cycles started
MaxAdding == 2      \* add_email calls in flight

\* check_email has returned result for a row whose latest answer was before
Answered(before, result, remote) ==
  [count |-> result.total_breaches,
   failed |-> before.failed \/ remote = "failed"]

\* _check_single: check_email has returned, update_check_result has not run
LeakAnswer(outcome, pastes_count) ==
  /\ leak.pc = "lookup"
  /\ LET result == CheckEmail(Entry.email, api_key, outcome,
                              HibpData(hibp[Entry.email]), pastes_count)
     IN  /\ leak' = [leak EXCEPT !.pc = "answered",
                                 !.new_count = result.total_breaches,
                                 !.error = result.error,
                                 !.remote = RemoteEnded(api_key, outcome)]
         /\ latest' = [latest EXCEPT ![Entry.id] =
                         Answered(@, result, RemoteEnded(api_key, outcome))]
  /\ runs' = Disturbed
  /\ UNCHANGED <<now, api_key, bot, hibp, users, rows, notification_logs,
                 darkweb_alerts, fsm, dark, chk, delivered, budget>>
  /\ UNCHANGED <<checkvars, adding, passwordvars, aggvars>>

\* _check_single from update_check_result on, and _notify_new_breach up to
\* its await of bot.send_message
LeakPersist ==
  /\ leak.pc = "answered"
  /\ rows' = UpdateCheckResult(rows, Entry.id, leak.new_count, now)
  /\ IF /\ IsNewBreach(leak.new_count, Entry.last_breach_count)
        /\ ShouldSend(notification_logs, bot, Entry.user_id,
                      BreachHash(Entry.email, leak.new_count))
     THEN leak' = [leak EXCEPT !.pc = "send", !.attempts = Append(@, Entry.id)]
     ELSE leak' = [leak EXCEPT !.pc = "sleep"]
  /\ UNCHANGED <<now, api_key, bot, hibp, users, notification_logs,
                 darkweb_alerts, fsm, dark, chk, delivered, runs, budget>>
  /\ UNCHANGED extravars

\* monitor_check_now: check_email has returned
CheckNowAnswer(outcome, pastes_count) ==
  /\ chk.pc = "lookup"
  /\ LET result == CheckEmail(chk.email, api_key, outcome,
                              HibpData(hibp[chk.email]), pastes_count)
     IN  /\ chk' = [pc |-> "answered", id |-> chk.id, email |-> chk.email,
                    new_count |-> result.total_breaches]
         /\ latest' = [latest EXCEPT ![chk.id] =
                         Answered(@, result, RemoteEnded(api_key, outcome))]
  /\ runs' = Disturbed
  /\ UNCHANGED <<now, api_key, bot, hibp, users, rows, notification_logs,
                 darkweb_alerts, fsm, leak, dark, delivered, budget>>
  /\ UNCHANGED <<checkvars, adding, passwordvars, aggvars>>

\* monitor_check_now from update_check_result on
CheckNowPersist ==
  /\ chk.pc = "answered"
  /\ rows' = UpdateCheckResult(rows, chk.id, chk.new_count, now)
  /\ chk' = ChkIdle
  /\ UNCHANGED <<now, api_key, bot, hibp, users, notification_logs,
                 darkweb_alerts, fsm, leak, dark, delivered, runs, budget>>
  /\ UNCHANGED extravars

\* what a user may type: the addresses, and one with a capital letter
EmailTexts == Emails \cup {[local |-> "U", domain |-> <<"mail", "ru">>]}

\* str.lower
Lower(email) == [email EXCEPT !.local = IF @ = "U" THEN "u" ELSE @]

\* MonitorCRUD.add_email, the SELECT: is the address watched by this user
Existing(table, user_id, email) ==
  \E i \in 1..Len(table) :
    /\ table[i].user_id = user_id
    /\ table[i].email = Lower(email)
    /\ table[i].is_active

\* monitor_add_process up to the answer of add_email's SELECT: a watched
\* address ends the handler, another one goes on to the INSERT
MonitorAddSelect(u, text) ==
  /\ u \in fsm
  /\ Event
  /\ IF Existing(rows, u, Lower(text))
     THEN /\ fsm' = fsm \ {u}
          /\ UNCHANGED adding
     ELSE /\ Len(adding) < MaxAdding
          /\ adding' = Append(adding, [user_id |-> u, email |-> Lower(text)])
          /\ UNCHANGED fsm
  /\ runs' = Disturbed
  /\ UNCHANGED <<now, api_key, bot, hibp, users, rows, notification_logs,
                 darkweb_alerts, leak, dark, chk, delivered>>
  /\ UNCHANGED <<checkvars, latest, passwordvars, aggvars>>

\* add_email from session.add on, and the rest of monitor_add_process
MonitorAddInsert(k) ==
  /\ k \in 1..Len(adding)
  /\ Len(rows) < MaxRows
  /\ rows' = Append(rows, [user_id |-> adding[k].user_id,
                           email |-> Lower(adding[k].email),
                           is_active |-> TRUE, last_checked |-> NoTime,
                           last_breach_count |-> 0])
  /\ fsm' = fsm \ {adding[k].user_id}
  /\ adding' = [j \in 1..(Len(adding) - 1) |->
                  IF j < k THEN adding[j] ELSE adding[j + 1]]
  /\ UNCHANGED <<now, api_key, bot, hibp, users, notification_logs,
                 darkweb_alerts, leak, dark, chk, delivered, runs, budget>>
  /\ UNCHANGED <<checkvars, latest, passwordvars, aggvars>>

\* ---------------------------------- monitoring_service.py: dark-web cycle
Paste == [Source |-> "Pastebin", Date |-> 0]

\* what the paste endpoint may answer
PasteAnswers == { << >>, <<Paste>>, <<Paste, Paste>> }

HighRiskDomains ==
  { <<"mail", "ru">>, <<"yandex", "ru">>, <<"rambler", "ru">>,
    <<"bk", "ru">>, <<"list", "ru">>, <<"inbox", "ru">> }

\* strftime("%Y-%m-%d")
Day(t) == t \div TicksPerDay

\* DarkWebService._check_pastes
PasteFindings(key, data) ==
  IF ~key THEN << >>
  ELSE [k \in 1..(IF Len(data) < 10 THEN Len(data) ELSE 10) |->
          [source_name |-> data[k].Source, found_date |-> data[k].Date]]

\* DarkWebService._simulate_darkweb_check
SimulateDarkwebCheck(email, t) ==
  IF email.domain \in HighRiskDomains
  THEN << [source_name |-> "Aggregator", found_date |-> Day(t)] >>
  ELSE << >>

\* DarkWebService.scan
Scan(email, key, data, t) ==
  PasteFindings(key, data) \o SimulateDarkwebCheck(email, t)

\* sha256 of f"{email}:{source_name}:{found_date}", collision-free
FindingHash(email, finding) == <<email, finding.source_name, finding.found_date>>

\* the body of the loop over scan.findings for one finding with its
\* content_hash: the two tables after it
RecordFinding(logs, alerts, user_id, content_hash, source_name) ==
  IF WasSent(logs, user_id, "darkweb", content_hash)
  THEN [logs |-> logs, alerts |-> alerts]
  ELSE [logs |-> LogSent(logs, user_id, "darkweb", content_hash),
        alerts |-> Append(alerts, [user_id |-> user_id,
                                   source_name |-> source_name])]

\* the loop over scan.findings: the two tables after findings k..
RECURSIVE RecordFindings(_, _, _, _, _, _)
RecordFindings(logs, alerts, user_id, email, findings, k) ==
  IF k > Len(findings) THEN [logs |-> logs, alerts |-> alerts]
  ELSE LET after == RecordFinding(logs, alerts, user_id,
                                  FindingHash(email, findings[k]),
                                  findings[k].source_name)
       IN  RecordFindings(after.logs, after.alerts, user_id, email, findings,
                          k + 1)

DarkStart ==
  /\ dark.pc = "idle"
  /\ budget.dark_cycles > 0
  /\ budget' = [budget EXCEPT !.dark_cycles = @ - 1]
  /\ \E m \in GetAllActive :
       dark' = IF m = << >> THEN DarkIdle
               ELSE [pc |-> "item", monitored |-> m, i |-> 1]
  /\ UNCHANGED <<now, api_key, bot, hibp, users, rows, notification_logs,
                 darkweb_alerts, fsm, leak, chk, delivered, runs>>
  /\ UNCHANGED extravars

\* one iteration of the loop of run_darkweb_cycle
DarkItem(data) ==
  /\ dark.pc = "item"
  /\ LET entry == dark.monitored[dark.i]
         user == users[entry.user_id]
         after == RecordFindings(notification_logs, darkweb_alerts,
                                 entry.user_id, entry.email,
                                 Scan(entry.email, api_key, data, now), 1)
     IN  IF /\ IsSubscriptionActive(user, now)
            /\ user.subscription_type \in {"premium", "business"}
         THEN /\ notification_logs' = after.logs
              /\ darkweb_alerts' = after.alerts
         ELSE UNCHANGED <<notification_logs, darkweb_alerts>>
  /\ dark' = IF dark.i < Len(dark.monitored)
             THEN [dark EXCEPT !.i = @ + 1]
             ELSE DarkIdle
  /\ UNCHANGED <<now, api_key, bot, hibp, users, rows, fsm, leak, chk,
                 delivered, runs, budget>>
  /\ UNCHANGED extravars

\* ----------------------------------------------------- handlers/check.py
MaxEventsCheck == 3 \* user requests and clock ticks beside the check handlers
MaxAsks == 2        \* process_email_check handlers running at once

free_checks_per_day == 1

\* what the monitoring pipeline owns
monitorvars == <<rows, notification_logs, darkweb_alerts, fsm, leak, dark, chk,
                 delivered, runs, racevars, aggvars>>

\* a message text that validate_email rejects
NotAnEmail == [local |-> "u", domain |-> << >>]
EmailInputs == Emails \cup {NotAnEmail}

\* helpers.validate_email: the pattern asks for a domain with a dot
ValidateEmail(email) == Len(email.domain) >= 2

\* LeakFormatter.format_result: which of its three texts it returns
FormatResult(result) ==
  IF Truthy(result.error) THEN "error"
  ELSE IF ~(result.total_breaches > 0) THEN "clean"
  ELSE "found"

\* UserCRUD.can_check
CanCheck(user, q, t) ==
  IF /\ user.subscription_type # "free"
     /\ user.subscription_expires # NoTime
     /\ user.subscription_expires > t
  THEN TRUE
  ELSE IF q.last_check_date # NoTime /\ Day(q.last_check_date) = Day(t)
       THEN q.checks_today < free_checks_per_day
       ELSE TRUE

\* UserCRUD.increment_check: the columns after the commit; the counters are
\* computed from the user object the handler loaded at its start
IncrementCheck(stored, loaded, t) ==
  IF loaded.last_check_date # NoTime /\ Day(loaded.last_check_date) = Day(t)
  THEN [stored EXCEPT !.checks_today = loaded.checks_today + 1,
                      !.total_checks = loaded.total_checks + 1]
  ELSE [checks_today |-> 1, last_check_date |-> t,
        total_checks |-> loaded.total_checks + 1]

\* CheckHistoryCRUD._mask_value for an email (the model's local parts are one
\* character long: the character, then "***")
MaskValue(email) == [local |-> <<email.local, "***">>, domain |-> email.domain]

\* CheckHistoryCRUD.add for an email check; sha256 of the lower-cased
\* address is identified with the address
HistoryAdd(history, user_id, email, breaches_found) ==
  Append(history, [user_id |-> user_id, check_type |-> "email",
                   query_value |-> MaskValue(email), query_hash |-> email,
                   breaches_found |-> breaches_found])

\* FSMContext.update_data(last_result, last_query, last_query_type)
UpdateData(data, email) == [data EXCEPT !.last_query = email]
\* FSMContext.clear: the state and the data are dropped
Clear(data) == NoData

\* select_email_check
SelectEmailCheck(u) ==
  /\ u \notin fsm_check
  /\ fsm_check' = fsm_check \cup {u}
  /\ shown' = [shown EXCEPT ![u] = [text |-> "ask", remote |-> "none"]]
  /\ UNCHANGED <<now, api_key, bot, hibp, users, budget, monitorvars,
                 passwordvars>>
  /\ UNCHANGED <<quota, check_history, fsm_data, asks>>

\* process_email_check up to its await of check_email
ProcessEmailCheckBegin(u, email) ==
  /\ u \in fsm_check
  /\ Event
  /\ IF ~ValidateEmail(email)
     THEN /\ shown' = [shown EXCEPT ![u] = [text |-> "invalid", remote |-> "none"]]
          /\ UNCHANGED <<fsm_check, fsm_data, asks>>
     ELSE IF ~CanCheck(users[u], quota[u], now)
     THEN /\ shown' = [shown EXCEPT ![u] = [text |-> "limit", remote |-> "none"]]
          /\ fsm_check' = fsm_check \ {u}
          /\ fsm_data' = [fsm_data EXCEPT ![u] = Clear(@)]
          /\ UNCHANGED asks
     ELSE /\ Len(asks) < MaxAsks
          /\ shown' = [shown EXCEPT ![u] = [text |-> "processing", remote |-> "none"]]
          /\ asks' = Append(asks, [user_id |-> u, email |-> email,
                                   loaded |-> quota[u]])
          /\ UNCHANGED <<fsm_check, fsm_data>>
  /\ UNCHANGED <<now, api_key, bot, hibp, users, monitorvars, passwordvars>>
  /\ UNCHANGED <<quota, check_history>>

\* process_email_check from the answer of check_email on
ProcessEmailCheckDone(k, outcome, pastes_count) ==
  /\ k \in 1..Len(asks)
  /\ LET ask == asks[k]
         result == CheckEmail(ask.email, api_key, outcome,
                              HibpData(hibp[ask.email]), pastes_count)
     IN  /\ check_history' = HistoryAdd(check_history, ask.user_id, ask.email,
                                        result.total_breaches)
         /\ quota' = [quota EXCEPT ![ask.user_id] =
                        IncrementCheck(@, ask.loaded, now)]
         /\ fsm_data' = [fsm_data EXCEPT ![ask.user_id] =
                           Clear(UpdateData(@, ask.email))]
         /\ fsm_check' = fsm_check \ {ask.user_id}
         /\ shown' = [shown EXCEPT ![ask.user_id] =
                        [text |-> FormatResult(result),
                         remote |-> RemoteEnded(api_key, outcome)]]
  /\ asks' = [j \in 1..(Len(asks) - 1) |-> IF j < k THEN asks[j] ELSE asks[j + 1]]
  /\ UNCHANGED <<now, api_key, bot, hibp, users, budget, monitorvars,
                 passwordvars>>

\* get_check_result_kb: the result message carries the button
\* "monitor:add_last" when the check found breaches
HasAddLastButton(screen) == screen.text = "found"

\* monitor_add_last_check, pressed on the result message of a check
MonitorAddLastCheck(u) ==
  /\ HasAddLastButton(shown[u])
  /\ Event
  /\ LET last_query == fsm_data[u].last_query
         limit == GetMonitorLimit(users[u].subscription_type)
         answer == IF last_query = NoQuery THEN "no last check"
                   ELSE IF ~IsSubscriptionActive(users[u], now)
                   THEN "subscription needed"
                   ELSE IF CountUserMonitored(u) >= limit THEN "monitor limit"
                   ELSE IF AddEmail(rows, u, last_query) = rows
                   THEN "already monitored"
                   ELSE "added"
     IN  /\ rows' = IF answer = "added" THEN AddEmail(rows, u, last_query)
                    ELSE rows
         /\ Len(rows') <= MaxRows
         /\ shown' = [shown EXCEPT ![u] = [text |-> answer, remote |-> "none"]]
  /\ UNCHANGED <<now, api_key, bot, hibp, users, notification_logs,
                 darkweb_alerts, fsm, leak, dark, chk, delivered, runs,
                 racevars, aggvars, passwordvars>>
  /\ UNCHANGED <<quota, check_history, fsm_check, fsm_data, asks>>

\* ------------------------------- services/password_checker.py
\* A character is a one-character string, a character outside ASCII the
\* string of its code point ("u044f" is U+044F); a str is a sequence of
\* characters.

\* a-z
LatinLower ==
  <<"a", "b", "c", "d", "e", "f", "g", "h", "i", "j", "k", "l", "m", "n",
   "o", "p", "q", "r", "s", "t", "u", "v", "w", "x", "y", "z">>

\* A-Z, in the order of LatinLower
LatinUpper ==
  <<"A", "B", "C", "D", "E", "F", "G", "H", "I", "J", "K", "L", "M", "N",
   "O", "P", "Q", "R", "S", "T", "U", "V", "W", "X", "Y", "Z">>

\* \u0430-\u044f and \u0451
CyrillicLower ==
  <<"u0430", "u0431", "u0432", "u0433", "u0434", "u0435", "u0436", "u0437",
   "u0438", "u0439", "u043a", "u043b", "u043c", "u043d", "u043e", "u043f",
   "u0440", "u0441", "u0442", "u0443", "u0444", "u0445", "u0446", "u0447",
   "u0448", "u0449", "u044a", "u044b", "u044c", "u044d", "u044e", "u044f",
   "u0451">>

\* \u0410-\u042f and \u0401, in the order of CyrillicLower
CyrillicUpper ==
  <<"u0410", "u0411", "u0412", "u0413", "u0414", "u0415", "u0416", "u0417",
   "u0418", "u0419", "u041a", "u041b", "u041c", "u041d", "u041e", "u041f",
   "u0420", "u0421", "u0422", "u0423", "u0424", "u0425", "u0426", "u0427",
   "u0428", "u0429", "u042a", "u042b", "u042c", "u042d", "u042e", "u042f",
   "u0401">>

\* \d
DigitChars ==
  {"0", "1", "2", "3", "4", "5", "6", "7", "8", "9"}

\* the class [!@#$%^&*()_+\-=\[\]{};':"\\|,.<>\/?]
SpecialChars ==
  {"!", "@", "#", "$", "%", "^", "&", "*", "(", ")", "_", "+", "-", "=",
   "[", "]", "{", "}", ";", "'", ":", "\"", "\\", "|", ",", ".", "<", ">",
   "/", "?"}

\* the elements of a sequence
Range(s) == {s[i] : i \in 1..Len(s)}

\* [\x00-\x7F], as far as the characters of the inputs go
AsciiChars ==
  Range(LatinLower) \cup Range(LatinUpper) \cup DigitChars \cup SpecialChars
    \cup {" ", "\n", "\r"}

\* the letters of one case to those of the other
Cased(from, to) ==
  [c \in Range(from) |-> to[CHOOSE i \in 1..Len(from) : from[i] = c]]

ToLower == Cased(LatinUpper \o CyrillicUpper, LatinLower \o CyrillicLower)
ToUpper == Cased(LatinLower \o CyrillicLower, LatinUpper \o CyrillicUpper)

\* str.lower and str.upper of one character
LowerChar(c) == IF c \in DOMAIN ToLower THEN ToLower[c] ELSE c
UpperChar(c) == IF c \in DOMAIN ToUpper THEN ToUpper[c] ELSE c

\* str.lower, str.upper
StrLower(s) == [i \in 1..Len(s) |-> LowerChar(s[i])]
StrUpper(s) == [i \in 1..Len(s) |-> UpperChar(s[i])]

\* re.search of a one-character class
Search(class, s) == \E i \in 1..Len(s) : s[i] \in class

\* every character of s[a..b] is in the class
AllIn(class, s, a, b) == \A i \in a..b : s[i] \in class

\* sub in s
Contains(s, sub) ==
  \E i \in 0..(Len(s) - Len(sub)) : SubSeq(s, i + 1, i + Len(sub)) = sub

\* re.match of a pattern that starts with the literal
StartsWith(s, literal) ==
  Len(s) >= Len(literal) /\ SubSeq(s, 1, Len(literal)) = literal

\* the passwords the users type
Passwords ==
  {
    <<"p", "a", "s", "s", "w", "o", "r", "d">>,
    <<"W", "i", "n", "t", "e", "r", "6", "1", "4", "9", "0", "0">>,
    <<"1", "2", "3", "4">>,
    <<"S", "u", "m", "m", "e", "r", "2", "0", "2", "4">>,
    <<"a", "a", "a", "a", "a", "a">>,
    <<"Z", "x", "9", "#">>,
    <<"A", "b", "c", "d", "e", "f", "g", "h", "1", "2", "3", "4", "!", "@",
    "#", "$", "u044f">>
  }

\* PasswordCheckerService.COMMON_PASSWORDS
COMMON_PASSWORDS ==
  {
    <<"p", "a", "s", "s", "w", "o", "r", "d">>,
    <<"1", "2", "3", "4", "5", "6">>,
    <<"1", "2", "3", "4", "5", "6", "7", "8">>,
    <<"q", "w", "e", "r", "t", "y">>,
    <<"a", "b", "c", "1", "2", "3">>,
    <<"m", "o", "n", "k", "e", "y">>,
    <<"1", "2", "3", "4", "5", "6", "7">>,
    <<"l", "e", "t", "m", "e", "i", "n">>,
    <<"t", "r", "u", "s", "t", "n", "o", "1">>,
    <<"d", "r", "a", "g", "o", "n">>,
    <<"b", "a", "s", "e", "b", "a", "l", "l">>,
    <<"i", "l", "o", "v", "e", "y", "o", "u">>,
    <<"m", "a", "s", "t", "e", "r">>,
    <<"s", "u", "n", "s", "h", "i", "n", "e">>,
    <<"a", "s", "h", "l", "e", "y">>,
    <<"m", "i", "c", "h", "a", "e", "l">>,
    <<"s", "h", "a", "d", "o", "w">>,
    <<"1", "2", "3", "1", "2", "3">>,
    <<"6", "5", "4", "3", "2", "1">>,
    <<"s", "u", "p", "e", "r", "m", "a", "n">>,
    <<"q", "a", "z", "w", "s", "x">>,
    <<"f", "o", "o", "t", "b", "a", "l", "l">>,
    <<"p", "a", "s", "s", "w", "o", "r", "d", "1">>,
    <<"p", "a", "s", "s", "w", "o", "r", "d", "1", "2", "3">>,
    <<"0", "0", "0", "0", "0", "0">>,
    <<"1", "1", "1", "1", "1", "1">>,
    <<"1", "2", "3", "4">>,
    <<"1", "2", "3", "4", "5">>,
    <<"1", "2", "3", "4", "5", "6", "7", "8", "9">>,
    <<"1", "2", "3", "4", "5", "6", "7", "8", "9", "0">>,
    <<"q", "w", "e", "r", "t", "y", "1", "2", "3">>,
    <<"1", "q", "2", "w", "3", "e", "4", "r">>,
    <<"a", "d", "m", "i", "n">>,
    <<"r", "o", "o", "t">>,
    <<"w", "e", "l", "c", "o", "m", "e">>,
    <<"a", "c", "c", "e", "s", "s">>,
    <<"l", "o", "g", "i", "n">>,
    <<"p", "a", "s", "s", "w", "0", "r", "d">>,
    <<"h", "e", "l", "l", "o">>,
    <<"c", "h", "a", "r", "l", "i", "e">>,
    <<"d", "o", "n", "a", "l", "d">>,
    <<"l", "o", "v", "e", "m", "e">>,
    <<"s", "t", "a", "r", "w", "a", "r", "s">>,
    <<"s", "o", "l", "o">>,
    <<"p", "r", "i", "n", "c", "e", "s", "s">>,
    <<"h", "o", "t", "t", "i", "e">>,
    <<"l", "o", "v", "e", "l", "y">>,
    <<"t", "e", "s", "t">>,
    <<"d", "e", "f", "a", "u", "l", "t">>,
    <<"u043f", "u0430", "u0440", "u043e", "u043b", "u044c">>,
    <<"u0439", "u0446", "u0443", "u043a", "u0435", "u043d">>,
    <<"u043f", "u0440", "u0438", "u0432", "u0435", "u0442">>,
    <<"u043b", "u044e", "u0431", "u043e", "u0432", "u044c">>,
    <<"u043d", "u0430", "u0442", "u0430", "u0448", "u0430">>,
    <<"u043c", "u0430", "u043a", "u0441", "u0438", "u043c">>,
    <<"u0430", "u043d", "u0434", "u0440", "u0435", "u0439">>,
    <<"u0433", "u0430", "u043d", "u0434", "u043e", "u043d">>,
    <<"u0441", "u0435", "u0440", "u0433", "u0435", "u0439">>,
    <<"u0440", "u043e", "u0441", "u0441", "u0438", "u044f">>
  }

\* PasswordCheckerService.KEYBOARD_SEQUENCES
KEYBOARD_SEQUENCES ==
  {
    <<"q", "w", "e", "r", "t", "y">>,
    <<"q", "w", "e", "r", "t", "y", "u", "i", "o", "p">>,
    <<"a", "s", "d", "f", "g", "h", "j", "k", "l">>,
    <<"z", "x", "c", "v", "b", "n", "m">>,
    <<"1", "2", "3", "4", "5", "6", "7", "8", "9", "0">>,
    <<"q", "a", "z", "w", "s", "x">>,
    <<"1", "q", "a", "z", "2", "w", "s", "x">>,
    <<"u0439", "u0446", "u0443", "u043a", "u0435", "u043d">>,
    <<"u0444", "u044b", "u0432", "u0430", "u043f", "u0440">>,
    <<"u044f", "u0447", "u0441", "u043c", "u0438", "u0442">>
  }

\* hashlib.sha1(password.encode("utf-8")).hexdigest() of the passwords
Sha1Table ==
  (<<"p", "a", "s", "s", "w", "o", "r", "d">> :>
     <<"5", "b", "a", "a", "6", "1", "e", "4", "c", "9", "b", "9", "3", "f",
      "3", "f", "0", "6", "8", "2", "2", "5", "0", "b", "6", "c", "f", "8",
      "3", "3", "1", "b", "7", "e", "e", "6", "8", "f", "d", "8">>)
    @@
  (<<"W", "i", "n", "t", "e", "r", "6", "1", "4", "9", "0", "0">> :>
     <<"5", "b", "a", "a", "6", "a", "7", "8", "0", "1", "d", "4", "5", "b",
      "b", "8", "f", "3", "5", "a", "b", "0", "3", "1", "f", "f", "b", "0",
      "3", "f", "1", "a", "5", "1", "4", "e", "a", "f", "7", "d">>)
    @@
  (<<"1", "2", "3", "4">> :>
     <<"7", "1", "1", "0", "e", "d", "a", "4", "d", "0", "9", "e", "0", "6",
      "2", "a", "a", "5", "e", "4", "a", "3", "9", "0", "b", "0", "a", "5",
      "7", "2", "a", "c", "0", "d", "2", "c", "0", "2", "2", "0">>)
    @@
  (<<"S", "u", "m", "m", "e", "r", "2", "0", "2", "4">> :>
     <<"6", "e", "a", "1", "6", "4", "7", "5", "9", "a", "d", "c", "c", "d",
      "f", "0", "b", "6", "3", "c", "3", "e", "6", "a", "8", "a", "5", "2",
      "7", "9", "2", "6", "9", "1", "f", "4", "c", "3", "7", "b">>)
    @@
  (<<"a", "a", "a", "a", "a", "a">> :>
     <<"f", "7", "a", "9", "e", "2", "4", "7", "7", "7", "e", "c", "2", "3",
      "2", "1", "2", "c", "5", "4", "d", "7", "a", "3", "5", "0", "b", "c",
      "5", "b", "e", "a", "5", "4", "7", "7", "f", "d", "b", "b">>)
    @@
  (<<"Z", "x", "9", "#">> :>
     <<"e", "b", "c", "7", "c", "1", "7", "1", "c", "6", "7", "5", "9", "e",
      "2", "a", "e", "9", "d", "b", "c", "5", "2", "c", "6", "5", "0", "6",
      "f", "3", "7", "b", "d", "0", "9", "a", "b", "0", "0", "d">>)
    @@
  (<<"A", "b", "c", "d", "e", "f", "g", "h", "1", "2", "3", "4", "!", "@", "#", "$", "u044f">> :>
     <<"8", "8", "0", "2", "4", "b", "1", "a", "5", "9", "6", "4", "1", "7",
      "a", "7", "4", "c", "1", "e", "c", "f", "c", "c", "b", "a", "f", "9",
      "d", "8", "a", "e", "1", "c", "6", "b", "3", "1", "5", "c">>)

Sha1Hex(password) == Sha1Table[password]

\* math.log2 of the charset sizes, in millionths of a bit
Log2Micro ==
  1 :> 0 @@ 10 :> 3321928 @@ 26 :> 4700440 @@ 32 :> 5000000 @@
  36 :> 5169925 @@ 42 :> 5392317 @@ 52 :> 5700440 @@ 58 :> 5857981 @@
  62 :> 5954196 @@ 66 :> 6044394 @@ 68 :> 6087463 @@ 76 :> 6247928 @@
  84 :> 6392317 @@ 92 :> 6523562 @@ 94 :> 6554589 @@ 98 :> 6614710 @@
  100 :> 6643856 @@ 102 :> 6672425 @@ 108 :> 6754888 @@ 110 :> 6781360 @@
  118 :> 6882643 @@ 124 :> 6954196 @@ 126 :> 6977280 @@ 128 :> 7000000 @@
  132 :> 7044394 @@ 134 :> 7066089 @@ 136 :> 7087463 @@ 142 :> 7149747 @@
  150 :> 7228819 @@ 152 :> 7247928 @@ 158 :> 7303781 @@ 160 :> 7321928 @@
  162 :> 7339850 @@ 166 :> 7375039 @@ 168 :> 7392317 @@ 176 :> 7459432 @@
  184 :> 7523562 @@ 192 :> 7584963 @@ 194 :> 7599913 @@ 198 :> 7629357 @@
  202 :> 7658211 @@ 208 :> 7700440 @@ 218 :> 7768184 @@ 224 :> 7807355 @@
  228 :> 7832890 @@ 234 :> 7870365 @@ 250 :> 7965784 @@ 260 :> 8022368

\* the builtins max and min
Max(a, b) == IF a >= b THEN a ELSE b
Min(a, b) == IF a <= b THEN a ELSE b

\* the digit the pattern (01|12|23|34|45|56|67|78|89|90) pairs with d
NextDigit(d) ==
  LET digits == <<"0", "1", "2", "3", "4", "5", "6", "7", "8", "9">>
      i == CHOOSE k \in 1..10 : digits[k] = d
  IN  digits[(i % 10) + 1]

\* re.match of COMMON_PATTERNS[0], ^[a-z]+\d{1,4}$
WordThenDigits(s) ==
  \E k \in 1..(Len(s) - 1) :
    /\ AllIn(Range(LatinLower), s, 1, k)
    /\ AllIn(DigitChars, s, k + 1, Len(s))
    /\ Len(s) - k <= 4

\* COMMON_PATTERNS[1], ^\d{6,}$
SixDigitsOrMore(s) == Len(s) >= 6 /\ AllIn(DigitChars, s, 1, Len(s))

\* COMMON_PATTERNS[2], ^[a-z]{1,3}\d{1,3}[a-z]{1,3}$
LettersDigitsLetters(s) ==
  \E i \in 1..3, j \in 1..3, k \in 1..3 :
    /\ Len(s) = i + j + k
    /\ AllIn(Range(LatinLower), s, 1, i)
    /\ AllIn(DigitChars, s, i + 1, i + j)
    /\ AllIn(Range(LatinLower), s, i + j + 1, Len(s))

\* COMMON_PATTERNS[3], ^(.)\1+$
OneCharacterRepeated(s) ==
  /\ Len(s) >= 2
  /\ s[1] # "\n"
  /\ \A i \in 1..Len(s) : s[i] = s[1]

\* COMMON_PATTERNS[4], ^(01|12|23|34|45|56|67|78|89|90)+$
DigitPairs(s) ==
  /\ Len(s) >= 2
  /\ Len(s) % 2 = 0
  /\ \A k \in 1..(Len(s) \div 2) :
       /\ s[2 * k - 1] \in DigitChars
       /\ s[2 * k] = NextDigit(s[2 * k - 1])

\* COMMON_PATTERNS[5] and [6], ^(qwerty|asdfgh|zxcvbn) and the Cyrillic rows
KeyboardStart(s) ==
  \E literal \in {<<"q", "w", "e", "r", "t", "y">>,
                  <<"a", "s", "d", "f", "g", "h">>,
                  <<"z", "x", "c", "v", "b", "n">>,
                  <<"u0439", "u0446", "u0443", "u043a", "u0435", "u043d">>,
                  <<"u0444", "u044b", "u0432", "u0430", "u043f", "u0440">>,
                  <<"u044f", "u0447", "u0441", "u043c", "u0438", "u0442">>} :
    StartsWith(s, literal)

\* PasswordCheckerService._check_common_patterns
CheckCommonPatterns(password) ==
  LET pwd_lower == StrLower(password)
  IN  \/ pwd_lower \in COMMON_PASSWORDS
      \/ \E seq \in KEYBOARD_SEQUENCES : Contains(pwd_lower, seq)
      \/ WordThenDigits(pwd_lower)
      \/ SixDigitsOrMore(pwd_lower)
      \/ LettersDigitsLetters(pwd_lower)
      \/ OneCharacterRepeated(pwd_lower)
      \/ DigitPairs(pwd_lower)
      \/ KeyboardStart(pwd_lower)
      \/ (Cardinality(Range(password)) <= 2 /\ Len(password) > 3)

\* PasswordCheckerService._calculate_entropy, in tenths of a bit (the code
\* rounds to one decimal): len * log2(charset_size) * max(0.5, unique_ratio)
CalculateEntropy(password) ==
  LET cyrillic == Range(CyrillicLower) \cup Range(CyrillicUpper)
      sized == (IF Search(Range(LatinLower), password) THEN 26 ELSE 0)
               + (IF Search(Range(LatinUpper), password) THEN 26 ELSE 0)
               + (IF Search(DigitChars, password) THEN 10 ELSE 0)
               + (IF Search(SpecialChars, password) THEN 32 ELSE 0)
               + (IF Search(cyrillic, password) THEN 66 ELSE 0)
               + (IF \E i \in 1..Len(password) :
                       password[i] \notin AsciiChars \cup cyrillic
                  THEN 100 ELSE 0)
      charset_size == IF sized = 0 THEN 1 ELSE sized
      length == Len(password)
      unique == Cardinality(Range(password))
      micro == IF 2 * unique >= length
               THEN unique * Log2Micro[charset_size]
               ELSE (length * Log2Micro[charset_size]) \div 2
  IN  (micro + 50000) \div 100000

\* 2 ** entropy_bits raises OverflowError from 1024 bits on
CrackTimeRaises(entropy_bits) == entropy_bits >= 10240

\* PasswordCheckerService._estimate_crack_time: the unit of the displayed
\* time; 2 ** bits / 10**10 seconds is below a limit exactly when the
\* tenths of a bit are below 10 * log2(limit * 10**10), rounded up
EstimateCrackTime(entropy_bits) ==
  IF entropy_bits < 233 THEN "instant"
  ELSE IF entropy_bits < 333 THEN "ms"
  ELSE IF entropy_bits < 392 THEN "sec"
  ELSE IF entropy_bits < 451 THEN "min"
  ELSE IF entropy_bits < 497 THEN "hours"
  ELSE IF entropy_bits < 546 THEN "days"
  ELSE IF entropy_bits < 582 THEN "months"
  ELSE IF entropy_bits < 648 THEN "years"
  ELSE IF entropy_bits < 781 THEN "thousand years"
  ELSE IF entropy_bits < 881 THEN "million years"
  ELSE "forever"

\* _calculate_score before its last line
RawScore(password, result) ==
  LET length == Len(password)
      char_types == (IF result.has_upper THEN 1 ELSE 0)
                    + (IF result.has_lower THEN 1 ELSE 0)
                    + (IF result.has_digits THEN 1 ELSE 0)
                    + (IF result.has_special THEN 1 ELSE 0)
  IN  (IF length >= 16 THEN 30
       ELSE IF length >= 12 THEN 25
       ELSE IF length >= 10 THEN 20
       ELSE IF length >= 8 THEN 15
       ELSE IF length >= 6 THEN 10
       ELSE 5)
      + char_types * 7 + (IF result.has_unicode THEN 3 ELSE 0)
      + (IF result.entropy_bits >= 800 THEN 25
         ELSE IF result.entropy_bits >= 600 THEN 20
         ELSE IF result.entropy_bits >= 400 THEN 15
         ELSE IF result.entropy_bits >= 250 THEN 10
         ELSE 5)
      + (IF length > 0
         THEN (Cardinality(Range(password)) * 15) \div length
         ELSE 0)
      - (IF result.is_common_pattern THEN 30 ELSE 0)
      - (IF length < 6 THEN 20 ELSE 0)

\* the score without the bounds of the last line
CalculateScoreNoBounds(password, result) == RawScore(password, result)

\* PasswordCheckerService._calculate_score
CalculateScore(password, result) ==
  Max(0, Min(100, RawScore(password, result)))

\* PasswordCheckerService._get_strength_level
GetStrengthLevel(score) ==
  IF score < 20 THEN "terrible"
  ELSE IF score < 40 THEN "weak"
  ELSE IF score < 60 THEN "fair"
  ELSE IF score < 80 THEN "strong"
  ELSE "excellent"

\* the items of a list that are kept, in order
Kept(items, keep) ==
  LET F[i \in 0..Len(items)] ==
        IF i = 0 THEN << >>
        ELSE IF keep[i] THEN Append(F[i - 1], items[i]) ELSE F[i - 1]
  IN  F[Len(items)]

\* PasswordCheckerService._generate_feedback: the warnings
Warnings(password, result) ==
  Kept(<<"too short", "known pattern", "top password", "few unique">>,
       <<result.length < 8,
         result.is_common_pattern,
         StrLower(password) \in COMMON_PASSWORDS,
         Cardinality(Range(password)) <= 3>>)

\* PasswordCheckerService._generate_feedback: the suggestions
Suggestions(password, result) ==
  LET found == Kept(<<"use 12", "add upper", "add lower", "add digits",
                      "add special", "no dictionary words">>,
                    <<result.length < 8,
                      ~result.has_upper,
                      ~result.has_lower,
                      ~result.has_digits,
                      ~result.has_special,
                      result.is_common_pattern>>)
  IN  IF found = << >> THEN <<"looks strong">> ELSE found

\* check_password up to its await of _check_hibp_passwords
Analyse(password) ==
  LET basic == [length |-> Len(password),
                has_upper |-> Search(Range(LatinUpper) \cup Range(CyrillicUpper),
                                     password),
                has_lower |-> Search(Range(LatinLower) \cup Range(CyrillicLower),
                                     password),
                has_digits |-> Search(DigitChars, password),
                has_special |-> Search(SpecialChars, password),
                has_unicode |-> \E i \in 1..Len(password) :
                                  password[i] \notin AsciiChars,
                is_common_pattern |-> CheckCommonPatterns(password),
                entropy_bits |-> CalculateEntropy(password)]
      score == CalculateScore(password, basic)
  IN  [is_compromised |-> FALSE,
       times_seen |-> 0,
       score |-> score,
       strength |-> GetStrengthLevel(score),
       crack_time_display |-> EstimateCrackTime(basic.entropy_bits),
       entropy_bits |-> basic.entropy_bits,
       length |-> basic.length,
       has_upper |-> basic.has_upper,
       has_lower |-> basic.has_lower,
       has_digits |-> basic.has_digits,
       has_special |-> basic.has_special,
       has_unicode |-> basic.has_unicode,
       is_common_pattern |-> basic.is_common_pattern,
       warnings |-> Warnings(password, basic),
       suggestions |-> Suggestions(password, basic)]

\* the characters str.splitlines ends a line at, and those str.strip drops
LineEnds == {"\n", "\r"}
Whitespace == {" ", "\t", "\n", "\r"}

\* the k-th smallest element of a set of numbers
Nth(S, k) == CHOOSE x \in S : Cardinality({y \in S : y < x}) = k - 1

\* str.splitlines: "\r\n" ends one line, and no line follows the last end
Splitlines(text) ==
  LET ends == {i \in 1..Len(text) :
                 /\ text[i] \in LineEnds
                 /\ ~(text[i] = "\n" /\ i > 1 /\ text[i - 1] = "\r")}
      last(i) == IF text[i] = "\r" /\ i < Len(text) /\ text[i + 1] = "\n"
                 THEN i + 1 ELSE i
      from(k) == IF k = 1 THEN 1 ELSE last(Nth(ends, k - 1)) + 1
      n == Cardinality(ends)
      lines == IF n = 0 \/ last(Nth(ends, n)) < Len(text) THEN n + 1 ELSE n
  IN  IF text = << >> THEN << >>
      ELSE [k \in 1..lines |->
              SubSeq(text, from(k),
                     IF k <= n THEN Nth(ends, k) - 1 ELSE Len(text))]

\* str.split(sep): the parts between the separators, always at least one
Split(s, sep) ==
  LET seps == {i \in 1..Len(s) : s[i] = sep}
      n == Cardinality(seps)
  IN  [k \in 1..(n + 1) |->
         SubSeq(s, IF k = 1 THEN 1 ELSE Nth(seps, k - 1) + 1,
                   IF k <= n THEN Nth(seps, k) - 1 ELSE Len(s))]

\* str.strip
Strip(s) ==
  LET inked == {i \in 1..Len(s) : s[i] \notin Whitespace}
  IN  IF inked = {} THEN << >>
      ELSE SubSeq(s, CHOOSE i \in inked : \A j \in inked : i <= j,
                     CHOOSE i \in inked : \A j \in inked : i >= j)

\* int(s) raises ValueError unless s is a decimal numeral (digits, as far
\* as the answers below go)
IsNumeral(s) == Len(s) > 0 /\ AllIn(DigitChars, s, 1, Len(s))

\* int(s) of a decimal numeral
IntValue(s) ==
  LET digits == <<"0", "1", "2", "3", "4", "5", "6", "7", "8", "9">>
      V[i \in 0..Len(s)] ==
        IF i = 0 THEN 0
        ELSE 10 * V[i - 1] + (CHOOSE d \in 0..9 : digits[d + 1] = s[i])
  IN  V[Len(s)]

\* "\r\n".join(lines)
RECURSIVE Join(_)
Join(lines) ==
  IF lines = << >> THEN << >>
  ELSE IF Len(lines) = 1 THEN lines[1]
  ELSE lines[1] \o <<"\r", "\n">> \o Join(Tail(lines))

\* sha1[5:] of a password, in upper case
Suffix(password) ==
  LET sha1 == StrUpper(Sha1Hex(password)) IN SubSeq(sha1, 6, Len(sha1))

Password == <<"p", "a", "s", "s", "w", "o", "r", "d">>
Winter == <<"W", "i", "n", "t", "e", "r", "6", "1", "4", "9", "0", "0">>
Summer == <<"S", "u", "m", "m", "e", "r", "2", "0", "2", "4">>

\* lines a range answer is made of: suffixes of the passwords' hashes with
\* a count, in upper and in lower case, and lines that are not SUFFIX:COUNT
RangeLines ==
  { Suffix(Password) \o <<":", "3", "8", "6", "1", "4", "9", "3">>,
    StrLower(Suffix(Password)) \o <<":", "7">>,
    <<" ">> \o Suffix(Winter) \o <<":", "2", " ">>,
    Suffix(Winter) \o <<":", "0">>,
    Suffix(Password) \o <<":", "1", ":", "2">>,
    Suffix(Winter) \o <<":", "1", "x">>,
    Suffix(Summer) \o <<":", "5">> }

MaxLines == 2       \* lines of a range answer

\* what api.pwnedpasswords.com may do with a request: the connection fails
\* or times out, or a response arrives, with status 200 and a body or not
RangeAnswers ==
  {[kind |-> "raises"], [kind |-> "response", status |-> 503, text |-> << >>]}
    \cup {[kind |-> "response", status |-> 200, text |-> Join(lines)] :
            lines \in UNION {[1..n -> RangeLines] : n \in 0..MaxLines}}

\* _check_hibp_passwords: the loop over text.splitlines(); a ValueError of
\* int() is caught by the except clause, which returns 0
RECURSIVE ScanLines(_, _, _)
ScanLines(lines, i, suffix) ==
  IF i > Len(lines) THEN 0
  ELSE LET parts == Split(Strip(lines[i]), ":")
       IN  IF Len(parts) = 2 /\ StrUpper(parts[1]) = suffix
           THEN (IF IsNumeral(parts[2]) THEN IntValue(parts[2]) ELSE 0)
           ELSE ScanLines(lines, i + 1, suffix)

\* the request with the whole hash in its URL
RangeRequestWholeHash(password) ==
  [method |-> "GET",
   url |-> <<"https://api.pwnedpasswords.com/range/">>
             \o StrUpper(Sha1Hex(password))]

\* _check_hibp_passwords: the request it sends
RangeRequest(password) ==
  LET sha1 == StrUpper(Sha1Hex(password))
      prefix == SubSeq(sha1, 1, 5)
  IN  [method |-> "GET",
       url |-> <<"https://api.pwnedpasswords.com/range/">> \o prefix]

\* the lines compared with the whole hash
CheckHibpPasswordsWholeHash(password, answer) ==
  IF answer.kind = "raises" THEN 0
  ELSE IF answer.status = 200
  THEN ScanLines(Splitlines(answer.text), 1, StrUpper(Sha1Hex(password)))
  ELSE 0

\* _check_hibp_passwords: what it returns for the answer to its request
CheckHibpPasswords(password, answer) ==
  IF answer.kind = "raises" THEN 0
  ELSE IF answer.status = 200
  THEN ScanLines(Splitlines(answer.text), 1, Suffix(password))
  ELSE 0

\* Analyse and CheckHibpPasswords on the inputs of the handlers, computed
\* once
Analysed == [password \in Passwords |-> Analyse(password)]
Counted ==
  [password \in Passwords |->
     [answer \in RangeAnswers |-> CheckHibpPasswords(password, answer)]]

\* the penalty without its floor: "result.score - 40" for "max(0, ...)"
PwnedNoFloor(result, pwned) ==
  IF pwned > 0
  THEN LET score == result.score - 40
       IN  [result EXCEPT !.is_compromised = TRUE,
                          !.times_seen = pwned,
                          !.warnings = <<"found in leaks">> \o @,
                          !.score = score,
                          !.strength = IF score < 20 THEN "terrible" ELSE @]
  ELSE [result EXCEPT !.is_compromised = FALSE, !.times_seen = pwned]

\* check_password from the return of _check_hibp_passwords on
Pwned(result, pwned) ==
  IF pwned > 0
  THEN LET score == Max(0, result.score - 40)
       IN  [result EXCEPT !.is_compromised = TRUE,
                          !.times_seen = pwned,
                          !.warnings = <<"found in leaks">> \o @,
                          !.score = score,
                          !.strength = IF score < 20 THEN "terrible" ELSE @]
  ELSE [result EXCEPT !.is_compromised = FALSE, !.times_seen = pwned]

\* PasswordFormatter.format_result: the lines about compromise
CompromiseLines(result) ==
  IF result.is_compromised
  THEN <<"compromised", result.times_seen, "change this password">>
  ELSE <<"not found in known leaks">>

\* ---------------------------------------------------- handlers/password.py
MaxEventsPassword == 2  \* user requests and clock ticks

\* message.text of a message without text
NoText == << >>

\* the literal that process_password_check passes as query_value
PASSWORD_CHECK ==
  <<"[", "P", "A", "S", "S", "W", "O", "R", "D", "_", "C", "H", "E", "C", "K", "]">>

\* query_value=password for the literal
QueryValueRaw(password) == password

\* process_password_check: query_value="[PASSWORD_CHECK]"
QueryValue(password) == PASSWORD_CHECK

\* hashlib.sha256(query_value.lower().encode()).hexdigest(), taken as
\* collision-free: the digest is identified with the text that was hashed
QueryHash(query_value) == [sha256 |-> StrLower(query_value)]

\* CheckHistoryCRUD._mask_value for CheckType.PASSWORD
MaskPassword(value) == "********"

\* CheckHistoryCRUD.add as process_password_check calls it
HistoryAddPassword(history, user_id, password, result) ==
  Append(history,
         [user_id |-> user_id, check_type |-> "password",
          query_value |-> MaskPassword(QueryValue(password)),
          query_hash |-> QueryHash(QueryValue(password)),
          breaches_found |-> IF result.is_compromised THEN 1 ELSE 0,
          result_data |-> [score |-> result.score,
                           strength |-> result.strength,
                           is_compromised |-> result.is_compromised,
                           times_seen |-> result.times_seen,
                           length |-> result.length,
                           entropy |-> result.entropy_bits]])

\* FSMContext.update_data(password_result)
UpdatePasswordData(data, result) ==
  [f \in DOMAIN data \cup {"password_result"} |->
     IF f = "password_result"
     THEN [score |-> result.score, strength |-> result.strength,
           is_compromised |-> result.is_compromised,
           warnings |-> result.warnings]
     ELSE data[f]]

\* start_password_check, while a message of the user can still follow
StartPasswordCheck(u) ==
  /\ u \notin fsm_password
  /\ budget.events > 0
  /\ fsm_password' = fsm_password \cup {u}
  /\ password_shown' = [password_shown EXCEPT ![u] = [text |-> "ask"]]
  /\ UNCHANGED <<now, api_key, bot, hibp, users, budget, monitorvars,
                 checkvars>>
  /\ UNCHANGED <<password_asks, requests, assessed>>

\* process_password_check up to the request of _check_hibp_passwords
ProcessPasswordCheckBegin(u, password) ==
  /\ u \in fsm_password
  /\ Event
  /\ IF password = NoText
     THEN /\ password_shown' = [password_shown EXCEPT
                                  ![u] = [text |-> "enter a password"]]
          /\ UNCHANGED <<password_asks, requests>>
     ELSE /\ password_shown' = [password_shown EXCEPT
                                  ![u] = [text |-> "processing"]]
          /\ IF CrackTimeRaises(Analysed[password].entropy_bits)
             THEN UNCHANGED <<password_asks, requests>>
             ELSE /\ Len(password_asks) < MaxAsks
                  /\ password_asks' =
                       Append(password_asks,
                              [user_id |-> u, user |-> users[u],
                               password |-> password,
                               result |-> Analysed[password]])
                  /\ requests' = requests \cup
                       {[password |-> password,
                         request |-> RangeRequest(password)]}
  /\ UNCHANGED <<now, api_key, bot, hibp, users, monitorvars, checkvars>>
  /\ UNCHANGED <<fsm_password, assessed>>

\* process_password_check from the answer to the request on; advice: the
\* GigaChat service is asked, is available and answers
ProcessPasswordCheckDone(k, answer, advice) ==
  /\ k \in 1..Len(password_asks)
  /\ advice => IsSubscriptionActive(password_asks[k].user, now)
  /\ LET ask == password_asks[k]
         u == ask.user_id
         pwned == Counted[ask.password][answer]
         result == Pwned(ask.result, pwned)
         is_premium == IsSubscriptionActive(ask.user, now)
         asked == is_premium /\ (result.score < 60 \/ result.is_compromised)
     IN  /\ check_history' = HistoryAddPassword(check_history, u, ask.password,
                                                result)
         /\ fsm_data' = [fsm_data EXCEPT
                           ![u] = Clear(UpdatePasswordData(@, result))]
         /\ fsm_password' = fsm_password \ {u}
         /\ assessed' = [password |-> ask.password, answer |-> answer,
                         result |-> result]
         /\ password_shown' = [password_shown EXCEPT
                                 ![u] = [text |-> "assessment",
                                         result |-> result,
                                         ai_advice |-> asked /\ advice,
                                         is_premium |-> is_premium]]
  /\ password_asks' = [j \in 1..(Len(password_asks) - 1) |->
                         IF j < k THEN password_asks[j]
                         ELSE password_asks[j + 1]]
  /\ UNCHANGED <<now, api_key, bot, hibp, users, budget, monitorvars>>
  /\ UNCHANGED <<quota, fsm_check, asks, shown, requests>>

\* ------------------------------------------------------------------- next
Next ==
  \/ Tick
  \/ \E e \in Emails, a \in HibpAnswers : UpstreamChange(e, a)
  \/ \E u \in Users, t \in PaidTypes : ActivateSubscription(u, t)
  \/ \E u \in Users : MonitorAddStart(u)
  \/ \E u \in Users, e \in Emails : MonitorAddProcess(u, e)
  \/ \E u \in Users, id \in 1..MaxRows : MonitorRemove(u, id)
  \/ \E u \in Users, id \in 1..MaxRows : CheckNowBegin(u, id)
  \/ \E o \in HibpOutcomes, p \in 0..1 : CheckNowDone(o, p)
  \/ LeakStart
  \/ \E o \in HibpOutcomes, p \in 0..1 : LeakLookupDone(o, p)
  \/ \E ok \in BOOLEAN : LeakSendDone(ok)
  \/ LeakSleepDone

Spec == Init /\ [][Next]_vars

NextAll ==
  \/ Next
  \/ DarkStart
  \/ \E d \in PasteAnswers : DarkItem(d)

SpecAll == InitAll /\ [][NextAll]_vars


\* the leak cycle with items that raise
InitFaults == Start([events |-> MaxEventsFaults, cycles |-> MaxCyclesFaults,
                     dark_cycles |-> 0])

NextFaults ==
  \/ Next
  \/ \E at \in RaisePoints, o \in HibpOutcomes, p \in 0..1 : LeakRaised(at, o, p)
  \/ LeakRaisedNext

SpecFaults == InitFaults /\ [][NextFaults]_vars

\* check_email called on its own, with every answer of its sources
Aggregate(email, key, outcome, data, pastes_count) ==
  /\ agg' = [email |-> email, key |-> key, outcome |-> outcome, data |-> data,
              pastes_count |-> pastes_count,
              result |-> CheckEmail(email, key, outcome, data, pastes_count)]
  /\ UNCHANGED <<now, api_key, bot, hibp, users, budget, rows,
                 notification_logs, darkweb_alerts, fsm, leak, dark, chk,
                 delivered, runs, racevars, checkvars, passwordvars>>

\* the key and the index's data are inputs of Aggregate
InitAggregate ==
  /\ Start([events |-> 0, cycles |-> 0, dark_cycles |-> 0])
  /\ api_key = FALSE
  /\ hibp = [e \in Emails |-> 0]

NextAggregate ==
  \E e \in Emails, key \in BOOLEAN, o \in HibpOutcomes, d \in DataAnswers,
     p \in 0..1 : Aggregate(e, key, o, d, p)

SpecAggregate == InitAggregate /\ [][NextAggregate]_vars

\* check_email on the answers of the index that may repeat a name
NextRepeats ==
  \E e \in Emails, key \in BOOLEAN, o \in HibpOutcomes, d \in RepeatingAnswers,
     p \in 0..1 : Aggregate(e, key, o, d, p)

SpecRepeats == InitAggregate /\ [][NextRepeats]_vars

\* one record of the index's answer, parsed by _check_hibp: data classes of
\* each kind and counts at and around the thresholds
SeverityClasses ==
  {"Credit cards", "Government issued IDs", "Passwords", "Auth tokens",
   "Email addresses"}

PwnCounts == {0, 100000, 100001, 1000000, 1000001, 10000000, 10000001}

Classify(classes, count) ==
  /\ LET breach_data == [Name |-> "Listed", PwnCount |-> count,
                         DataClasses |-> classes]
     IN  agg' = [breach_data |-> breach_data,
                 breaches |-> CheckHibp("ok", <<breach_data>>).breaches]
  /\ UNCHANGED <<now, api_key, bot, hibp, users, budget, rows,
                 notification_logs, darkweb_alerts, fsm, leak, dark, chk,
                 delivered, runs, racevars, checkvars, passwordvars>>

NextSeverity ==
  \E classes \in SUBSET SeverityClasses, count \in PwnCounts :
    Classify(classes, count)

SpecSeverity == InitAggregate /\ [][NextSeverity]_vars

\* the two callers of was_sent with the digest as an input: sha256 maps the
\* contents of both kinds into one set of digests
MaxEventsKinds == 4  \* notifications attempted
Digests == {"d1", "d2"}

\* _notify_new_breach from was_sent on, the send succeeding or raising
NotifyNewBreach(u, content_hash, ok) ==
  /\ Event
  /\ agg' = [kind |-> "new_breach", user_id |-> u,
              content_hash |-> content_hash, ok |-> ok,
              logs |-> notification_logs, alerts |-> darkweb_alerts]
  /\ IF ShouldSend(notification_logs, bot, u, content_hash)
     THEN /\ notification_logs' =
               AfterSend(notification_logs, ok, u, content_hash)
          /\ delivered' = IF ok
                          THEN Append(delivered, [user_id |-> u,
                                                  content_hash |-> content_hash])
                          ELSE delivered
     ELSE UNCHANGED <<notification_logs, delivered>>
  /\ UNCHANGED <<now, api_key, bot, hibp, users, rows, darkweb_alerts, fsm,
                 leak, dark, chk, runs, racevars, checkvars, passwordvars>>

\* run_darkweb_cycle, the loop body for one finding
DarkFinding(u, content_hash) ==
  /\ Event
  /\ agg' = [kind |-> "darkweb", user_id |-> u,
              content_hash |-> content_hash, ok |-> TRUE,
              logs |-> notification_logs, alerts |-> darkweb_alerts]
  /\ LET after == RecordFinding(notification_logs, darkweb_alerts, u,
                                content_hash, "Pastebin")
     IN  /\ notification_logs' = after.logs
         /\ darkweb_alerts' = after.alerts
  /\ UNCHANGED <<now, api_key, bot, hibp, users, rows, fsm, leak, dark, chk,
                 delivered, runs, racevars, checkvars, passwordvars>>

InitKinds ==
  /\ Start([events |-> MaxEventsKinds, cycles |-> 0, dark_cycles |-> 0])
  /\ api_key = FALSE
  /\ hibp = [e \in Emails |-> 0]

NextKinds ==
  \/ \E u \in Users, h \in Digests, ok \in BOOLEAN : NotifyNewBreach(u, h, ok)
  \/ \E u \in Users, h \in Digests : DarkFinding(u, h)

SpecKinds == InitKinds /\ [][NextKinds]_vars

\* the leak cycle of a MonitoringService built with or without a bot
\* (__init__, bot=None)
MaxEventsNotify == 3  \* user requests, upstream changes and clock ticks
MaxCyclesNotify == 2  \* leak cycles started

InitNotify ==
  /\ bot \in BOOLEAN
  /\ Begin([events |-> MaxEventsNotify, cycles |-> MaxCyclesNotify,
            dark_cycles |-> 0])

SpecNotify == InitNotify /\ [][Next]_vars


\* the leak cycle with items that raise, each of its awaits ending: the
\* requests of check_email carry ClientTimeout(total=15), and the event loop
\* resumes a coroutine whose await has ended. A request ends with an
\* answer, an error or a timeout
LiveOutcomes == {"ok", "500", "timeout"}

CycleStep ==
  \/ \E o \in LiveOutcomes : LeakLookupDone(o, 0)
  \/ \E ok \in BOOLEAN : LeakSendDone(ok)
  \/ LeakSleepDone
  \/ \E at \in RaisePoints, o \in LiveOutcomes : LeakRaised(at, o, 0)
  \/ LeakRaisedNext

NextLive ==
  \/ Tick
  \/ \E e \in Emails, a \in HibpAnswers : UpstreamChange(e, a)
  \/ \E u \in Users, t \in PaidTypes : ActivateSubscription(u, t)
  \/ \E u \in Users : MonitorAddStart(u)
  \/ \E u \in Users, e \in Emails : MonitorAddProcess(u, e)
  \/ \E u \in Users, id \in 1..MaxRows : MonitorRemove(u, id)
  \/ \E u \in Users, id \in 1..MaxRows : CheckNowBegin(u, id)
  \/ \E o \in LiveOutcomes : CheckNowDone(o, 0)
  \/ LeakStart
  \/ CycleStep

\* a key is configured and the index lists every address at first: the
\* cycle makes its requests to the index and has messages to send
InitLive ==
  /\ InitFaults
  /\ api_key = TRUE
  /\ hibp = [e \in Emails |-> 1]

SpecLive == InitLive /\ [][NextLive]_vars /\ WF_vars(CycleStep)

\* the leak cycle and the handlers, one await at a time
InitRace == Start([events |-> MaxEventsRace, cycles |-> MaxCyclesRace,
                   dark_cycles |-> 0])

NextRace ==
  \/ Tick
  \/ \E e \in Emails, a \in HibpAnswers : UpstreamChange(e, a)
  \/ \E u \in Users, t \in PaidTypes : ActivateSubscription(u, t)
  \/ \E u \in Users : MonitorAddStart(u)
  \/ \E u \in Users, e \in EmailTexts : MonitorAddSelect(u, e)
  \/ \E k \in 1..MaxAdding : MonitorAddInsert(k)
  \/ \E u \in Users, id \in 1..MaxRows : MonitorRemove(u, id)
  \/ \E u \in Users, id \in 1..MaxRows : CheckNowBegin(u, id)
  \/ \E o \in HibpOutcomes, p \in 0..1 : CheckNowAnswer(o, p)
  \/ CheckNowPersist
  \/ LeakStart
  \/ \E o \in HibpOutcomes, p \in 0..1 : LeakAnswer(o, p)
  \/ LeakPersist
  \/ \E ok \in BOOLEAN : LeakSendDone(ok)
  \/ LeakSleepDone

SpecRace == InitRace /\ [][NextRace]_vars

\* the check handlers and the users
InitCheck == Start([events |-> MaxEventsCheck, cycles |-> 0, dark_cycles |-> 0])

NextCheck ==
  \/ Tick
  \/ \E u \in Users, t \in PaidTypes : ActivateSubscription(u, t)
  \/ \E u \in Users : SelectEmailCheck(u)
  \/ \E u \in Users, e \in EmailInputs : ProcessEmailCheckBegin(u, e)
  \/ \E k \in 1..MaxAsks, o \in HibpOutcomes, p \in 0..1 :
       ProcessEmailCheckDone(k, o, p)

SpecCheck == InitCheck /\ [][NextCheck]_vars

\* the check handlers and the button under the result of a check
MaxEventsLast == 3  \* user requests and clock ticks

InitLast == Start([events |-> MaxEventsLast, cycles |-> 0, dark_cycles |-> 0])

NextLast ==
  \/ NextCheck
  \/ \E u \in Users : MonitorAddLastCheck(u)

SpecLast == InitLast /\ [][NextLast]_vars

\* the password handlers and the users; the breach index plays no part
InitPassword ==
  /\ Start([events |-> MaxEventsPassword, cycles |-> 0, dark_cycles |-> 0])
  /\ api_key = FALSE
  /\ hibp = [e \in Emails |-> 0]

NextPassword ==
  \/ Tick
  \/ \E u \in Users, t \in PaidTypes : ActivateSubscription(u, t)
  \/ \E u \in Users : StartPasswordCheck(u)
  \/ \E u \in Users, p \in Passwords \cup {NoText} :
       ProcessPasswordCheckBegin(u, p)
  \/ \E k \in 1..MaxAsks, a \in RangeAnswers, advice \in BOOLEAN :
       ProcessPasswordCheckDone(k, a, advice)

SpecPassword == InitPassword /\ [][NextPassword]_vars


\* ----------------------------------------------------------------- claims
\* a step that ends the await of check_email in the leak cycle
LookupStep == leak.pc = "lookup" /\ leak'.pc # "lookup"

\* a step that ends the await of bot.send_message
SendStep == leak.pc = "send" /\ leak'.pc # "send"

\* the row of the item the leak cycle is processing
Stored == rows[Entry.id]

NewBreachRecord(user_id, email, count) ==
  [user_id |-> user_id, notification_type |-> "new_breach",
   content_hash |-> BreachHash(email, count)]

\* C1: when the check of an entitled owner's identifier returns more than
\* the stored last_breach_count and no record exists for (owner, new_breach,
\* fingerprint of (value, new_count)), a message is sent, and a send that
\* succeeds delivers exactly one message and appends exactly that record.
C1_OneAlertPerStoredIncrease ==
  [][ /\ ( /\ LookupStep
           /\ leak'.new_count > Stored.last_breach_count
           /\ ~WasSent(notification_logs, Entry.user_id, "new_breach",
                       BreachHash(Entry.email, leak'.new_count)) )
         => leak'.pc = "send"
      /\ (SendStep /\ delivered' # delivered)
         => /\ Len(delivered') = Len(delivered) + 1
            /\ notification_logs' =
                 Append(notification_logs,
                        NewBreachRecord(Entry.user_id, Entry.email, leak.new_count))
    ]_vars

\* C2: a leak cycle that follows a leak cycle with nothing in between, and in
\* which every identifier's check returns the count it returned in the first,
\* attempts no send and appends no record.
SameAnswers == runs.prev_ok /\ runs.cur_ok /\ runs.cur \subseteq runs.prev

C2_WitnessFailedSend ==
  /\ SameAnswers
  /\ runs.cur # {}
  /\ delivered = << >>
  /\ \E x \in runs.cur : x[2] > 0

\* C3: no two rows of notification_logs have the same (owner, kind,
\* fingerprint).
C3_NoDuplicateRecords ==
  \A a, b \in 1..Len(notification_logs) :
    a # b => notification_logs[a] # notification_logs[b]

\* both cycles have written records for one owner
C3_Witness ==
  \E a, b \in 1..Len(notification_logs) :
    /\ notification_logs[a].notification_type = "new_breach"
    /\ notification_logs[b].notification_type = "darkweb"
    /\ notification_logs[a].user_id = notification_logs[b].user_id

C5_EveryIncreaseNotifies ==
  [][ ( /\ LookupStep
        /\ Stored.last_breach_count = Entry.last_breach_count
        /\ leak'.new_count > Stored.last_breach_count )
      => leak'.pc = "send" ]_vars

\* C6: a send that fails appends no record, and the cycle attempts at most
\* one send per identifier.
C6_FailedSendNotRecorded ==
  [][ /\ (SendStep /\ delivered' = delivered)
         => notification_logs' = notification_logs
      /\ (leak.pc # "send" /\ leak'.pc = "send")
         => leak'.monitored[leak'.i].id
              \notin { leak.attempts[k] : k \in 1..Len(leak.attempts) }
    ]_vars

\* a send of this cycle failed: one attempt, nothing delivered, no record
C6_Witness ==
  /\ leak.pc = "sleep"
  /\ Len(leak.attempts) = 1
  /\ delivered = << >>
  /\ notification_logs = << >>

\* C7: a manual re-check of an identifier whose notification failed to send
\* in the running cycle, which finds the same count, sends that notification.
C7_RecheckRetries ==
  [][ ( /\ chk.pc = "lookup" /\ chk'.pc = "idle"
        /\ leak.pc = "sleep"
        /\ chk.id = Entry.id
        /\ Entry.id \in { leak.attempts[k] : k \in 1..Len(leak.attempts) }
        /\ leak.logged = 0
        /\ runs.cur_ok
        /\ rows'[chk.id].last_breach_count = leak.new_count )
      => delivered' # delivered ]_vars

C9_FailedLookupKeepsRow ==
  [][ (LookupStep /\ leak'.remote = "failed")
      => rows'[Entry.id] = rows[Entry.id] ]_vars

\* C10: the result of a check_email whose breachedaccount request failed
\* carries an error.
C10_FailedLookupSetsError ==
  leak.remote = "failed" => Truthy(leak.error)

\* C11: a user-triggered email check whose breachedaccount request failed
\* shows the check-failed text, never the clean text.
C11_FailedCheckShowsError ==
  \A u \in Users : shown[u].remote = "failed" => shown[u].text = "error"

\* C12: after an item of a leak cycle raised, the cycle goes on with the item
\* after it: the position moves one item at a time and the cycle ends only
\* after the last item of its snapshot.
C12_RaiseDoesNotEndCycle ==
  [][ /\ (leak.pc # "idle" /\ leak'.pc = "idle")
         => leak.i = Len(leak.monitored)
      /\ (leak.pc # "idle" /\ leak'.pc # "idle" /\ leak'.i # leak.i)
         => leak'.i = leak.i + 1
    ]_vars

\* the first item of a cycle raised, and the second has been checked
C12_Witness ==
  /\ leak.pc = "sleep"
  /\ leak.i = 2
  /\ leak.raised = {1}
  /\ leak.new_count # NoCount

\* C13: in a leak cycle, the lookup of an item that follows an item for
\* which the breachedaccount request was made begins only after
\* asyncio.sleep(2).
C13_DelayBetweenLookups ==
  [][ ( /\ leak.pc # "idle"
        /\ leak'.pc = "lookup"
        /\ leak'.i # leak.i
        /\ leak.remote # "none" )
      => leak.pc = "sleep" ]_vars

\* C14: a leak cycle starts only when none is running, and within a cycle
\* the check of the next item begins only after the item before it has
\* finished its lookup, its update and its notification.
C14_ChecksAreSequential ==
  [][ /\ budget'.cycles < budget.cycles => leak.pc = "idle"
      /\ (leak.pc # "idle" /\ leak'.i # leak.i) => leak.pc = "sleep"
    ]_vars

\* the second item of a cycle is being looked up, the first having notified
C14_Witness ==
  /\ leak.pc = "lookup"
  /\ leak.i = 2
  /\ leak.attempts # << >>

\* the owner has no entitlement at this moment
Lapsed(user) ==
  \/ user.subscription_type = "free"
  \/ user.subscription_expires = NoTime
  \/ user.subscription_expires <= now

\* the item at which the cycle stands was skipped: no lookup was made for it
Skipped == leak.pc = "sleep" /\ leak.new_count = NoCount

\* C16: an item whose owner's entitlement has lapsed at its turn gets no
\* lookup, and its turn changes neither its row nor the notification log and
\* sends nothing.
C16_LapsedOwnerIsSkipped ==
  [][ /\ ( /\ leak'.pc \notin {"idle", "raised"}
           /\ (leak.pc = "idle" \/ leak'.i # leak.i)
           /\ Lapsed(users[leak'.monitored[leak'.i].user_id]) )
         => (leak'.pc = "sleep" /\ leak'.new_count = NoCount)
      /\ (Skipped /\ leak' # leak)
         => /\ rows' = rows
            /\ notification_logs' = notification_logs
            /\ delivered' = delivered
            /\ leak'.pc # "send"
    ]_vars

\* the cycle stands at an item it skipped because a paid subscription expired
C16_Witness ==
  /\ Skipped
  /\ users[Entry.user_id].subscription_type # "free"
  /\ rows[Entry.id].last_checked = NoTime

\* a check of the row has its answer and has not written it yet
Pending(id) ==
  \/ leak.pc = "answered" /\ Entry.id = id
  \/ chk.pc = "answered" /\ chk.id = id

\* C15: when no check of a row is between its answer and its write, and no
\* remote request for the row has failed, the row's last_breach_count is the
\* count of the latest answer for that row.
C15_NoLostUpdate ==
  \A id \in 1..Len(rows) :
    (latest[id].count # NoCount /\ ~latest[id].failed /\ ~Pending(id))
      => rows[id].last_breach_count = latest[id].count

\* C17: no owner has two active rows with the same address.
C17_NoDuplicateActiveRows ==
  \A i, j \in 1..Len(rows) :
    ( /\ i # j
      /\ rows[i].is_active /\ rows[j].is_active
      /\ rows[i].user_id = rows[j].user_id )
    => rows[i].email # rows[j].email

\* the first 5 characters of the password's SHA-1 hash, in upper case
Prefix(password) == SubSeq(StrUpper(Sha1Hex(password)), 1, 5)

\* C18: every request to the range source has a URL that ends with the first
\* 5 characters of the password's hash and carries nothing after them, so
\* none of the other 35 characters; two passwords whose hashes share the
\* 5 characters have the same request.
C18_OnlyThePrefixIsSent ==
  \A r \in requests :
    /\ Len(r.request.url) = 1 + 5
    /\ SubSeq(r.request.url, 2, 6) = Prefix(r.password)
    /\ ~Contains(r.request.url, Suffix(r.password))
    /\ \A q \in requests :
         Prefix(q.password) = Prefix(r.password) => q.request = r.request

\* C18: requests were sent for two passwords with the same 5 characters
C18_Witness ==
  \E r, q \in requests :
    /\ r.password # q.password
    /\ Prefix(r.password) = Prefix(q.password)

\* the lines of a range answer that are SUFFIX:COUNT with the password's suffix
Matches(password, answer) ==
  IF answer.kind = "response" /\ answer.status = 200
  THEN LET lines == Splitlines(answer.text)
       IN  {i \in 1..Len(lines) :
              LET parts == Split(Strip(lines[i]), ":")
              IN  Len(parts) = 2 /\ StrUpper(parts[1]) = Suffix(password)}
  ELSE {}

\* the count of the first of these lines
MatchedCount(password, answer) ==
  LET lines == Splitlines(answer.text)
      first == CHOOSE i \in Matches(password, answer) :
                 \A j \in Matches(password, answer) : i <= j
  IN  Split(Strip(lines[first]), ":")[2]

\* C19: the times_seen of a returned assessment is the count of the line of
\* the answer with the password's suffix, and 0 when the answer has no such
\* line or the request failed; is_compromised holds exactly when it is > 0.
C19_CountOfTheMatchingSuffix ==
  assessed # NoAssessment =>
    LET password == assessed.password
        answer == assessed.answer
        result == assessed.result
    IN  /\ Matches(password, answer) = {} => result.times_seen = 0
        /\ ( /\ Matches(password, answer) # {}
             /\ IsNumeral(MatchedCount(password, answer)) )
           => result.times_seen = IntValue(MatchedCount(password, answer))
        /\ result.is_compromised <=> result.times_seen > 0

\* C19: the hash of "password" starts with 5BAA6, the answer has its suffix
\* with the count 3861493
C19_Witness ==
  /\ assessed # NoAssessment
  /\ assessed.password = Password
  /\ Prefix(assessed.password) = <<"5", "B", "A", "A", "6">>
  /\ assessed.result.times_seen = 3861493
  /\ assessed.result.is_compromised

\* C20: the score of an assessment is in 0..100, when check_password awaits
\* the range answer (before the penalty) and when it has returned.
C20_ScoreWithinBounds ==
  /\ \A k \in 1..Len(password_asks) : password_asks[k].result.score \in 0..100
  /\ assessed # NoAssessment => assessed.result.score \in 0..100
  /\ \A u \in Users :
       password_shown[u].text = "assessment"
         => password_shown[u].result.score \in 0..100

\* C20: a compromised password whose score the penalty would take below 0,
\* a password scored above 100 before the last line, and a failed request
C20_Witness ==
  /\ assessed # NoAssessment
  /\ assessed.result.is_compromised
  /\ Analysed[assessed.password].score < 40
  /\ assessed.result.score = 0
  /\ \E u \in Users :
       /\ password_shown[u].text = "assessment"
       /\ password_shown[u].result.score = 100
       /\ \E p \in Passwords :
            RawScore(p, Analysed[p]) > 100 /\ password_shown[u].result = Analysed[p]

\* C25: every leak cycle that has started reaches its end, whatever the
\* answers, errors and timeouts of its lookups, sends and store accesses.
C25_EveryCycleCompletes == (leak.pc # "idle") ~> (leak.pc = "idle")

\* C25: a cycle has checked two items and has ended.
C25_Witness ==
  /\ leak.pc = "idle"
  /\ budget.cycles < MaxCyclesFaults
  /\ Cardinality(runs.cur) = 2

\* a step that begins the turn of an item of the leak cycle's list, the
\* owner being entitled: check_email is awaited for it
TurnBegins == /\ leak'.pc = "lookup"
              /\ leak'.i # leak.i \/ leak.pc = "idle"

\* C26: the leak cycle only acts on active rows: the row of an item is
\* active at the moment the item's turn begins, also when its owner removed
\* it after the cycle had loaded its list.
C26_TurnsOnlyForActiveRows ==
  [][TurnBegins => rows'[leak'.monitored[leak'.i].id].is_active]_vars

\* C27: a row that is inactive stays inactive in every step, and a step that
\* makes a removed address of a user watched again appends a new row.
C27_InactiveIsTerminal ==
  [][/\ Len(rows') >= Len(rows)
     /\ \A id \in 1..Len(rows) :
          /\ ~rows[id].is_active => ~rows'[id].is_active
          /\ rows'[id].user_id = rows[id].user_id
          /\ rows'[id].email = rows[id].email]_vars

\* C27: an address was removed and added again by its owner: the removed row
\* is still inactive and a later row watches the address.
C27_Witness ==
  \E i, j \in 1..Len(rows) :
    /\ i < j
    /\ rows[i].user_id = rows[j].user_id
    /\ rows[i].email = rows[j].email
    /\ ~rows[i].is_active
    /\ rows[j].is_active

\* C28: last_checked and last_breach_count of a row change only in a step
\* of the leak cycle that ends a lookup; no step of a handler changes them.
C28_OnlyTheCycleWritesCheckResults ==
  [][\A id \in 1..Len(rows) :
       (\/ rows'[id].last_checked # rows[id].last_checked
        \/ rows'[id].last_breach_count # rows[id].last_breach_count)
       => leak.pc = "lookup" /\ leak'.pc # "lookup" /\ chk' = chk]_vars

\* the rows of check_history written for password checks
PasswordRows ==
  { i \in 1..Len(check_history) : check_history[i].check_type = "password" }

\* C21: every history row of a password check holds the constant mask as
\* query_value and the hash of the constant literal as query_hash: the rows
\* of two checks have the same query_value and query_hash whatever the
\* passwords were, and neither field is the password or its hash.
C21_HistoryRowIndependentOfPassword ==
  /\ \A i \in PasswordRows :
       /\ check_history[i].query_value = "********"
       /\ check_history[i].query_hash = QueryHash(PASSWORD_CHECK)
       /\ \A r \in requests :
            check_history[i].query_hash # QueryHash(r.password)
  /\ \A i, j \in PasswordRows :
       /\ check_history[i].query_value = check_history[j].query_value
       /\ check_history[i].query_hash = check_history[j].query_hash

\* C21: two checks of two different passwords have both written their row.
C21_Witness ==
  /\ Cardinality(PasswordRows) = 2
  /\ password_asks = << >>
  /\ Cardinality({ r.password : r \in requests }) = 2

\* the records of the index's answer that check_email is to use: those of
\* an answered request made with a key
RemoteAnswer == IF agg.key /\ agg.outcome = "ok" THEN agg.data ELSE << >>

RemoteNames == { RemoteAnswer[k].Name : k \in 1..Len(RemoteAnswer) }

\* the catalog matches whose name the index's answer does not carry
LocalOnly ==
  { l \in Range(CheckLocalBreaches(agg.email)) : l.name \notin RemoteNames }

\* the place of a record in the merge: the index's records in the order of
\* the answer, then the catalog's in the order of the catalog
MergePosition(name) ==
  IF name \in RemoteNames
  THEN CHOOSE k \in 1..Len(RemoteAnswer) : RemoteAnswer[k].Name = name
  ELSE Len(RemoteAnswer)
         + (CHOOSE k \in 1..Len(CheckLocalBreaches(agg.email)) :
              CheckLocalBreaches(agg.email)[k].name = name)

Rank(b) ==
  CASE b.severity = "critical" -> 0 [] b.severity = "high" -> 1
    [] b.severity = "medium" -> 2 [] b.severity = "low" -> 3

\* C22: the records check_email returns are in non-decreasing severity rank
\* (critical 0, high 1, medium 2, low 3), and records of equal rank are in
\* merge order: the index's before the catalog's, each in source order.
C22_SortedBySeverityKeepingMergeOrder ==
  agg # NoAggregate =>
    \A i, j \in 1..Len(agg.result.breaches) :
      i < j =>
        LET a == agg.result.breaches[i]
            b == agg.result.breaches[j]
        IN  /\ Rank(a) <= Rank(b)
            /\ Rank(a) = Rank(b)
                 => MergePosition(a.name) < MergePosition(b.name)

\* C22: three records were returned, the sort has moved one of them, and a
\* record of the index stands before a catalog record of the same rank.
C22_Witness ==
  /\ agg # NoAggregate
  /\ Len(agg.result.breaches) = 3
  /\ \E k \in 1..3 : MergePosition(agg.result.breaches[k].name) # k
  /\ \E i, j \in 1..3 :
       /\ i < j
       /\ Rank(agg.result.breaches[i]) = Rank(agg.result.breaches[j])
       /\ agg.result.breaches[i].name \in RemoteNames
       /\ agg.result.breaches[j] \in LocalOnly

\* C23: check_email returns every record of an answered request to the
\* index, once, and exactly those catalog matches whose name the answer
\* does not carry, once; for a name in both sources the record is the
\* index's; total_breaches counts the records.
C23_MergeByName ==
  agg # NoAggregate =>
    LET breaches == agg.result.breaches
        At(name) == { i \in 1..Len(breaches) : breaches[i].name = name }
    IN  /\ \A k \in 1..Len(RemoteAnswer) :
             /\ Cardinality(At(RemoteAnswer[k].Name)) = 1
             /\ \A i \in At(RemoteAnswer[k].Name) :
                  /\ breaches[i].pwn_count = RemoteAnswer[k].PwnCount
                  /\ breaches[i].data_classes = RemoteAnswer[k].DataClasses
        /\ \A l \in LocalOnly :
             /\ Cardinality(At(l.name)) = 1
             /\ \A i \in At(l.name) : breaches[i] = l
        /\ Len(breaches) = Len(RemoteAnswer) + Cardinality(LocalOnly)
        /\ agg.result.total_breaches = Len(breaches)

\* C23: the index's answer carries the name of a catalog match of the
\* address, beside another record.
C23_Witness ==
  /\ agg # NoAggregate
  /\ Len(RemoteAnswer) = 2
  /\ \E l \in Range(CheckLocalBreaches(agg.email)) : l.name \in RemoteNames

\* C24: for an address at mail.ru for which the index returns no records,
\* check_email returns total_breaches = 1 and its one record, the catalog
\* entry with pwn_count 4,660,000 and classes Email addresses and Passwords,
\* has severity critical.
C24_MailRuAloneIsCritical ==
  (/\ agg # NoAggregate
   /\ agg.email.domain = <<"mail", "ru">>
   /\ RemoteAnswer = << >>)
  => /\ agg.result.total_breaches = 1
     /\ agg.result.breaches[1].pwn_count = 4660000
     /\ agg.result.breaches[1].data_classes = {"Email addresses", "Passwords"}
     /\ agg.result.breaches[1].severity = "critical"

\* C24: for that address check_email returns the one catalog record
C24_TotalIsOne ==
  (/\ agg # NoAggregate
   /\ agg.email.domain = <<"mail", "ru">>
   /\ RemoteAnswer = << >>)
  => agg.result.total_breaches = 1

\* the new_breach records of notification_logs
NewBreachRecords ==
  { i \in 1..Len(notification_logs) :
      notification_logs[i].notification_type = "new_breach" }

\* C29: there are at most as many new_breach records as messages that
\* bot.send_message has delivered, and a service without a bot has none.
C29_RecordsOnlyForDeliveredMessages ==
  /\ Cardinality(NewBreachRecords) <= Len(delivered)
  /\ ~bot => NewBreachRecords = {}

\* C29: within one cycle a send has failed and another has succeeded, and
\* there is a record.
C29_Witness ==
  /\ bot
  /\ NewBreachRecords # {}
  /\ Len(leak.attempts) > Len(delivered)

\* C29: a service without a bot has observed a new breach and gone on.
C29_WitnessNoBot ==
  /\ ~bot
  /\ leak.pc = "sleep"
  /\ leak.new_count > Entry.last_breach_count

\* C30: the strength of every returned assessment is the tier of its score:
\* below 20 terrible, below 40 weak, below 60 fair, below 80 strong,
\* otherwise excellent.
C30_StrengthIsTierOfScore ==
  assessed # NoAssessment =>
    assessed.result.strength =
      (IF assessed.result.score < 20 THEN "terrible"
       ELSE IF assessed.result.score < 40 THEN "weak"
       ELSE IF assessed.result.score < 60 THEN "fair"
       ELSE IF assessed.result.score < 80 THEN "strong"
       ELSE "excellent")

\* the assessment of the returned password as it stood before the
\* compromise check
Before == Analysed[assessed.password]

\* C31: with a compromise count above 0 the returned score is
\* max(0, s - 40) for the score s computed before the compromise check, the
\* critical warning stands first in the warnings, before those computed
\* earlier, and the tier is terrible when the returned score is below 20
\* (the earlier tier otherwise); with a count of 0 the score, the tier and
\* the warnings are those computed before the check.
C31_CompromisePenalty ==
  assessed # NoAssessment =>
    IF assessed.result.times_seen > 0
    THEN /\ assessed.result.score =
              (IF Before.score - 40 > 0 THEN Before.score - 40 ELSE 0)
         /\ assessed.result.warnings = <<"found in leaks">> \o Before.warnings
         /\ assessed.result.score < 20 => assessed.result.strength = "terrible"
         /\ assessed.result.score >= 20
              => assessed.result.strength = Before.strength
    ELSE /\ assessed.result.score = Before.score
         /\ assessed.result.strength = Before.strength
         /\ assessed.result.warnings = Before.warnings

\* C31: a compromised password whose score was below 40 and whose tier was
\* not terrible before the check: the floor and the downgrade both apply.
C31_Witness ==
  /\ assessed # NoAssessment
  /\ assessed.result.times_seen > 0
  /\ Before.score < 40
  /\ Before.strength # "terrible"
  /\ assessed.result.score = 0
  /\ assessed.result.strength = "terrible"

\* the data classes of financial instruments and government identifiers,
\* and the password-type classes
Financial ==
  {"Credit cards", "Bank account numbers", "Passport numbers",
   "Government issued IDs", "Social security numbers"}
PasswordType == {"Passwords", "Auth tokens", "Security questions and answers"}

\* C32: the severity of a record parsed from the index's answer follows the
\* cascade in order: a financial or government-identifier class gives
\* critical; else a password-type class with a count above 1,000,000 gives
\* critical; else a password-type class gives high; else a count above
\* 10,000,000 gives high; else a count above 100,000 gives medium; else
\* low. A count of exactly 1,000,000, 10,000,000 or 100,000 falls to the
\* next rule.
C32_SeverityCascade ==
  agg # NoAggregate =>
    LET classes == agg.breach_data.DataClasses
        count == agg.breach_data.PwnCount
        severity == agg.breaches[1].severity
    IN  /\ Len(agg.breaches) = 1
        /\ classes \cap Financial # {} => severity = "critical"
        /\ classes \cap Financial = {} =>
             /\ (classes \cap PasswordType # {} /\ count > 1000000)
                  => severity = "critical"
             /\ (classes \cap PasswordType # {} /\ count <= 1000000)
                  => severity = "high"
             /\ classes \cap PasswordType = {} =>
                  /\ count > 10000000 => severity = "high"
                  /\ (count <= 10000000 /\ count > 100000)
                       => severity = "medium"
                  /\ count <= 100000 => severity = "low"

\* C32: a record with a password-type class and a count of exactly
\* 1,000,000 has been given high.
C32_Witness ==
  /\ agg # NoAggregate
  /\ agg.breach_data.DataClasses = {"Passwords", "Email addresses"}
  /\ agg.breach_data.PwnCount = 1000000
  /\ agg.breaches[1].severity = "high"

\* the table agg.logs holds a record of this kind for the owner and the
\* fingerprint of the last notification attempted
Recorded(kind) ==
  \E i \in 1..Len(agg.logs) :
    /\ agg.logs[i].user_id = agg.user_id
    /\ agg.logs[i].notification_type = kind
    /\ agg.logs[i].content_hash = agg.content_hash

\* C33: the two kinds have separate fingerprint namespaces: a dark-web
\* finding is skipped exactly when a darkweb record with its fingerprint
\* exists for the owner, whatever new_breach records exist, and a new-breach
\* message is skipped exactly when a new_breach record with its fingerprint
\* exists, whatever darkweb records exist.
C33_SeparateNamespaces ==
  agg # NoAggregate =>
    /\ agg.kind = "darkweb" =>
         IF Recorded("darkweb")
         THEN notification_logs = agg.logs /\ darkweb_alerts = agg.alerts
         ELSE /\ Len(notification_logs) = Len(agg.logs) + 1
              /\ Len(darkweb_alerts) = Len(agg.alerts) + 1
    /\ agg.kind = "new_breach" =>
         IF Recorded("new_breach") \/ ~agg.ok
         THEN notification_logs = agg.logs
         ELSE Len(notification_logs) = Len(agg.logs) + 1

\* C33: a finding whose fingerprint a new_breach record of the owner
\* carries, and no darkweb record, has been recorded.
C33_Witness ==
  /\ agg # NoAggregate
  /\ agg.kind = "darkweb"
  /\ Recorded("new_breach")
  /\ ~Recorded("darkweb")
  /\ Len(darkweb_alerts) = Len(agg.alerts) + 1

\* a step that starts a leak cycle
CycleStarts == budget'.cycles < budget.cycles

\* the list a cycle has loaded
Snapshot(frame) == IF frame.pc = "idle" THEN << >> ELSE frame.monitored

\* C34: a leak cycle goes through exactly the rows that are active when it
\* starts, each once, in order of non-decreasing last_checked with the
\* never-checked rows first: the list it loads is that, and it goes through
\* the list item by item to its end.
C34_ActiveRowsLeastRecentlyCheckedFirst ==
  [][/\ CycleStarts =>
          LET m == Snapshot(leak')
          IN  /\ { m[k].id : k \in 1..Len(m) } = ActiveIds
              /\ Len(m) = Cardinality(ActiveIds)
              /\ \A a, b \in 1..Len(m) :
                   a < b =>
                     \/ rows[m[a].id].last_checked = NoTime
                     \/ /\ rows[m[b].id].last_checked # NoTime
                        /\ rows[m[a].id].last_checked
                             <= rows[m[b].id].last_checked
              /\ m # << >> => leak'.i = 1
     /\ (leak.pc # "idle" /\ leak'.pc # "idle") =>
          /\ leak'.monitored = leak.monitored
          /\ leak'.i \in {leak.i, leak.i + 1}
     /\ (leak.pc # "idle" /\ leak'.pc = "idle") =>
          leak.i = Len(leak.monitored)
    ]_vars

\* C34: a cycle has started on a never-checked row that was added after a
\* row checked earlier, which comes second.
C34_Witness ==
  /\ leak.pc # "idle"
  /\ leak.i = 1
  /\ Len(leak.monitored) = 2
  /\ leak.monitored[1].id = 2
  /\ rows[2].last_checked = NoTime
  /\ rows[1].last_checked # NoTime

\* the email checks the user has completed
ChecksOf(u) ==
  { i \in 1..Len(check_history) :
      check_history[i].user_id = u /\ check_history[i].check_type = "email" }

\* C35: a user who has never had a paid subscription completes at most
\* free_checks_per_day email checks within one day, however the user's
\* requests interleave (stated for the first day: every check so far was
\* made in it).
C35_FreeQuotaPerDay ==
  \A u \in Users :
    (users[u].subscription_type = "free" /\ Day(now) = 0)
      => Cardinality(ChecksOf(u)) <= free_checks_per_day

\* the address of the last email check the user has completed
LastChecked(u) ==
  check_history[CHOOSE i \in ChecksOf(u) : \A j \in ChecksOf(u) : j <= i].query_hash

\* a step in which monitor_add_last_check answers the user
AddLastAnswers(u) ==
  /\ HasAddLastButton(shown[u])
  /\ shown'[u].text \in {"no last check", "subscription needed",
                          "monitor limit", "already monitored", "added"}

\* C36: the last query saved by a completed email check stays readable:
\* when an entitled user under the limit presses "add to monitoring" on the
\* result of the check, the checked address is watched afterwards, and the
\* answer is not that there is no last check.
C36_LastCheckStaysReadable ==
  [][\A u \in Users :
       (/\ AddLastAnswers(u)
        /\ ChecksOf(u) # {}
        /\ IsSubscriptionActive(users[u], now)
        /\ CountUserMonitored(u) < GetMonitorLimit(users[u].subscription_type))
       => /\ shown'[u].text # "no last check"
          /\ \E i \in 1..Len(rows') :
               /\ rows'[i].is_active
               /\ rows'[i].user_id = u
               /\ rows'[i].email = LastChecked(u)]_vars

\* the request of the returned assessment failed: the connection raised or
\* timed out, or the response had a status other than 200
LookupFailed ==
  IF assessed.answer.kind = "raises" THEN TRUE ELSE assessed.answer.status # 200

\* C37: when the request to the hash-range source fails (network error,
\* timeout or a status other than 200), the assessment is not presented
\* with the line "not found in known leaks".
C37_FailedLookupIsNotShownAsNotFound ==
  (assessed # NoAssessment /\ LookupFailed)
    => CompromiseLines(assessed.result) # <<"not found in known leaks">>

\* C38: the result of check_email holds at most one record per name, for
\* any answer of the index (one that repeats a name included) and any
\* local matches.
C38_OneRecordPerName ==
  agg # NoAggregate =>
    \A i, j \in 1..Len(agg.result.breaches) :
      i # j => agg.result.breaches[i].name # agg.result.breaches[j].name

====
